---- MODULE Spec2Model ----
(***************************************************************************)
(* Verification model of the GreenHEART iron technology pipeline           *)
(* (greenheart/simulation/technologies/iron/iron_ore.py; iron_win.py is    *)
(* the same code with the names iron_ore -> iron_win).                     *)
(*                                                                         *)
(* Numbers.  Quantities of the capacity stage (kg/yr, t/yr, rates,         *)
(* capacity factors) are exact rationals <<n, d>>, d > 0, in lowest terms; *)
(* Python's None is the empty tuple <<>>.  Money of the cost stage is an   *)
(* integer number of dollars (rounded down after each product), because    *)
(* the power-law cost curves have irrational values; x ** e is read from a *)
(* table of the values Python computes, in thousandths.                    *)
(***************************************************************************)
EXTENDS Integers, Sequences, FiniteSets, TLC

VARIABLES
    pc,                 \* position of the running function
    error,              \* exception that reached the caller, "" when none
    calls,              \* stage functions invoked so far, in order
    \* capacity stage
    args,               \* keyword arguments of the capacity config under construction
    capacity_config,    \* IronOreCapacityModelConfig object, <<>> when none exists
    iron_ore_capacity,  \* IronOreCapacityModelOutputs, <<>> when none exists
    inv_config,         \* second capacity config, built from the first sizing's result
    inv_capacity,       \* outputs of the second sizing
    \* cost stage
    iron_ore_cost_config,   \* IronOreCostModelConfig object
    iron_ore_costs,         \* IronOreCostModelOutputs
    alt_costs,              \* outputs for the same config with o2_heat_integration flipped
    model_outputs,          \* what the external cost model returned, <<>> when it was not reached
    \* full-model runner
    greenheart_config,  \* the caller's greenheart_config['iron'] dict
    snapshot,           \* the caller's dict as it was before the first run
    iron_ore_config,    \* the dict the runner works on
    shared,             \* names of the dicts of iron_ore_config that are the caller's own objects
    run_args,           \* save_plots, show_plots of the call
    feedstocks,         \* the Feedstocks object of the run
    iron_ore_finance_config,    \* IronOreFinanceModelConfig object
    pf,                 \* the ProFAST object of the finance stage
    alt_pf,             \* the ProFAST object for the same config carrying other cost fields
    iron_ore_finance,   \* IronOreFinanceModelOutputs
    result,             \* what the runner returned to its caller
    runs,               \* finished calls of the runner
    files,              \* artifacts written under output_dir
    \* the two technology runners side by side
    collaborators,      \* what the external models and the solver do in both runs
    iron_win,           \* what run_iron_win_full_model left behind, <<>> before it ran
    \* tools/keys.py
    developer_arcgis_gov_key,       \* the module global; Unbound while no assignment ran
    \* core/tmp.py, ElectrolyzerLCOHInputConfig
    electrolyzer_physics_results,   \* H2_Results: schedules, capacity, time until replacement
    electrolyzer_config,            \* sub-dictionary of greenheart_config
    replacement_schedule,           \* fraction of the stacks replaced in each year
    refurb_cost_percent,            \* replacement cost of each year, percent of the capital cost
    \* to_organize/H2_Analysis/hopp_for_h2.py
    load,                                   \* hourly load
    combined_hybrid_power_production_hopp,  \* hourly production of the simulated plant
    energy_shortfall_hopp,                  \* hourly shortfall
    combined_hybrid_curtailment_hopp        \* hourly curtailment

toolVars == <<developer_arcgis_gov_key, electrolyzer_physics_results, electrolyzer_config,
              replacement_schedule, refurb_cost_percent, load, combined_hybrid_power_production_hopp,
              energy_shortfall_hopp, combined_hybrid_curtailment_hopp>>

sizeVars == <<args, capacity_config, iron_ore_capacity, inv_config, inv_capacity>>
costVars == <<iron_ore_cost_config, iron_ore_costs, alt_costs, model_outputs>>
runVars  == <<greenheart_config, snapshot, iron_ore_config, shared, run_args, feedstocks,
              iron_ore_finance_config, pf, alt_pf, iron_ore_finance, result, runs, files,
              collaborators, iron_win, toolVars>>

vars == <<pc, error, calls, sizeVars, costVars, runVars>>

-----------------------------------------------------------------------------
(* Bounds of the model *)

MaxSupplySteps == 2     \* hydrogen_amount_kgpy ranges over 0..MaxSupplySteps supply steps
MaxDemandSteps == 2     \* desired_iron_ore_mtpy ranges over 0..MaxDemandSteps demand steps

\* one supply step is 100000 kg of hydrogen per year, one demand step 500
\* metric tonnes of product per year

-----------------------------------------------------------------------------
(* Python values *)

None == <<>>
NoObject == <<>>

\* the tools outside the iron pipeline before anything called them
\* a module global that no assignment has bound yet
Unbound == [bound |-> FALSE]

KeysIdle == developer_arcgis_gov_key = Unbound

RefurbIdle ==
    /\ electrolyzer_physics_results = NoObject
    /\ electrolyzer_config = NoObject
    /\ replacement_schedule = NoObject
    /\ refurb_cost_percent = NoObject

HoppIdle ==
    /\ load = NoObject
    /\ combined_hybrid_power_production_hopp = NoObject
    /\ energy_shortfall_hopp = NoObject
    /\ combined_hybrid_curtailment_hopp = NoObject

ToolsIdle == KeysIdle /\ RefurbIdle /\ HoppIdle

RECURSIVE GCD(_, _)
GCD(a, b) == IF b = 0 THEN a ELSE GCD(b, a % b)

Abs(x) == IF x < 0 THEN -x ELSE x

\* the rational n/d in lowest terms with a positive denominator
Rat(n, d) ==
    LET g == GCD(Abs(n), Abs(d))
        s == IF d < 0 THEN -1 ELSE 1
    IN  <<s * (n \div g), s * (d \div g)>>

RInt(k) == <<k, 1>>

\* a * b, cross-reduced before multiplying
RMul(a, b) ==
    LET g1 == GCD(Abs(a[1]), b[2])
        g2 == GCD(Abs(b[1]), a[2])
    IN  Rat((a[1] \div g1) * (b[1] \div g2), (a[2] \div g2) * (b[2] \div g1))

\* a / b for b # 0
RDiv(a, b) == RMul(a, Rat(b[2], b[1]))

IsZero(a) == a[1] = 0

\* truth value of an Optional[float]: None and 0.0 are false
Truthy(x) == x # None /\ ~IsZero(x)

-----------------------------------------------------------------------------
(* Feedstocks.  Rates and unit costs are decimals with five places, held as
   integers in units of 1e-5 (E5): 0.06596 is 6596. *)

E5 == 100000

FromE5(x) == Rat(x, E5)

FeedstocksDefaults ==
    [ excess_oxygen                  |-> 39500000,
      lime_unitcost                  |-> 12210000,
      carbon_unitcost                |-> 23697000,
      electricity_cost               |-> 4892000,
      iron_ore_pellet_unitcost       |-> 20735000,
      oxygen_market_price            |-> 3000,
      raw_water_unitcost             |-> 59289,
      iron_ore_consumption           |-> 162927,
      raw_water_consumption          |-> 80367,
      lime_consumption               |-> 1812,
      carbon_consumption             |-> 5380,
      hydrogen_consumption           |-> 6596,
      natural_gas_consumption        |-> 71657,
      electricity_consumption        |-> 55020,
      slag_disposal_unitcost         |-> 3763000,
      slag_production                |-> 17433,
      maintenance_materials_unitcost |-> 772000 ]

\* Feedstocks(**kw): the given fields over the defaults; natural_gas_prices is required
Feedstocks(kw) ==
    [f \in DOMAIN FeedstocksDefaults \cup {"natural_gas_prices"} |->
        IF f \in DOMAIN kw THEN kw[f] ELSE FeedstocksDefaults[f]]

-----------------------------------------------------------------------------
(* Model registry (model_locations.yaml): paths by kind and model name *)

model_locs ==
    [ performance |-> [registered |-> [model  |-> "reg/perf_model",
                                        inputs |-> "reg/perf_inputs",
                                        coeffs |-> "reg/perf_coeffs"]],
      cost        |-> [registered |-> [model  |-> "reg/cost_model",
                                        inputs |-> "reg/cost_inputs",
                                        coeffs |-> "reg/cost_coeffs"]] ]

\* variant: every path taken from the registry, blank or not
ResolvePaths_Overwrite(kind, d) ==
    IF d.name \notin DOMAIN model_locs[kind]
    THEN [err |-> "KeyError", dict |-> d]
    ELSE [err |-> "",
          dict |-> [d EXCEPT !.model_fp  = model_locs[kind][d.name]["model"],
                             !.inputs_fp = model_locs[kind][d.name]["inputs"],
                             !.coeffs_fp = model_locs[kind][d.name]["coeffs"]]]

\* the three path look-ups of a stage's external branch, in order; a missing
\* registry entry raises KeyError at the first blank path
ResolvePaths(kind, d) ==
    LET known == d.name \in DOMAIN model_locs[kind]
        blank == d.model_fp = "" \/ d.inputs_fp = "" \/ d.coeffs_fp = ""
        look(fp, key) == IF fp = "" THEN model_locs[kind][d.name][key] ELSE fp
    IN  IF blank /\ ~known
        THEN [err |-> "KeyError", dict |-> d]
        ELSE [err |-> "",
              dict |-> [d EXCEPT !.model_fp  = look(d.model_fp, "model"),
                                 !.inputs_fp = look(d.inputs_fp, "inputs"),
                                 !.coeffs_fp = look(d.coeffs_fp, "coeffs")]]

-----------------------------------------------------------------------------
(* Capacity sizing: config construction and run_size_iron_ore_plant_capacity *)

\* the validation run at the end of construction; "" when it passes
CapacityPostInit(a) ==
    IF a.hydrogen_amount_kgpy = None /\ a.desired_iron_ore_mtpy = None
    THEN "ValueError: hydrogen_amount_kgpy or desired_iron_ore_mtpy is a required input"
    ELSE IF Truthy(a.hydrogen_amount_kgpy) /\ Truthy(a.desired_iron_ore_mtpy)
    THEN "ValueError: can only select one input"
    ELSE ""

\* keyword arguments kw over the defaults of the optional fields; a required
\* field that is missing makes the generated __init__ raise TypeError
WithDefaults(kw, defaults) ==
    [f \in DOMAIN kw \cup DOMAIN defaults |-> IF f \in DOMAIN kw THEN kw[f] ELSE defaults[f]]

CapacityDefaults ==
    [hydrogen_amount_kgpy |-> None, desired_iron_ore_mtpy |-> None, performance_model |-> None]

\* IronOreCapacityModelConfig(**kw): the object, or the error raised by validation
IronOreCapacityModelConfig(kw) ==
    LET a == WithDefaults(kw, CapacityDefaults)
    IN  IF {"input_capacity_factor_estimate", "feedstocks"} \ DOMAIN kw # {}
        THEN [err |-> "TypeError", obj |-> NoObject]
        ELSE IF CapacityPostInit(a) # ""
        THEN [err |-> CapacityPostInit(a), obj |-> NoObject]
        ELSE [err |-> "", obj |-> a]

IronOreCapacityModelOutputs(cap, h2) ==
    [iron_ore_plant_capacity_mtpy |-> cap, hydrogen_amount_kgpy |-> h2]

\* the built-in ("placeholder") branch: supply block, then demand block
SizePlaceholder(config) ==
    LET H   == config.hydrogen_amount_kgpy
        D   == config.desired_iron_ore_mtpy
        h   == FromE5(config.feedstocks.hydrogen_consumption)
        cf  == config.input_capacity_factor_estimate
        bad == \/ Truthy(H) /\ IsZero(h)
               \/ Truthy(D) /\ IsZero(cf)
    IN  IF bad THEN [err |-> "ZeroDivisionError", out |-> NoObject]
        ELSE IF Truthy(D)
        THEN [err |-> "",
              out |-> IronOreCapacityModelOutputs(
                          RDiv(D, cf),
                          RDiv(RMul(D, RMul(RInt(1000), h)), cf))]
        ELSE IF Truthy(H)
        THEN [err |-> "",
              out |-> IronOreCapacityModelOutputs(
                          RMul(RDiv(RDiv(H, RInt(1000)), h), cf),
                          H)]
        ELSE [err |-> "UnboundLocalError", out |-> NoObject]

\* variant: the external model imported and run whether or not its paths
\* were resolved
run_size_iron_ore_plant_capacity_ImportFirst(config, ext) ==
    LET pm == config.performance_model
    IN  IF pm = None
        THEN [err |-> "TypeError", out |-> NoObject, performance_model |-> pm]
        ELSE IF pm.name = "placeholder"
        THEN [err |-> SizePlaceholder(config).err,
              out |-> SizePlaceholder(config).out,
              performance_model |-> pm]
        ELSE [err |-> ext.err,
              out |-> IF ext.err = ""
                      THEN IronOreCapacityModelOutputs(ext.value[1], ext.value[2])
                      ELSE NoObject,
              performance_model |-> ResolvePaths("performance", pm).dict]

\* run_size_iron_ore_plant_capacity(config); ext is what the imported external
\* model does when it is reached.  performance_model is the descriptor dict as
\* the call leaves it.
run_size_iron_ore_plant_capacity(config, ext) ==
    LET pm == config.performance_model
    IN  IF pm = None
        THEN [err |-> "TypeError", out |-> NoObject, performance_model |-> pm]
        ELSE IF pm.name = "placeholder"
        THEN [err |-> SizePlaceholder(config).err,
              out |-> SizePlaceholder(config).out,
              performance_model |-> pm]
        ELSE LET r == ResolvePaths("performance", pm)
             IN  IF r.err # ""
                 THEN [err |-> r.err, out |-> NoObject, performance_model |-> r.dict]
                 ELSE [err |-> ext.err,
                       out |-> IF ext.err = ""
                               THEN IronOreCapacityModelOutputs(ext.value[1], ext.value[2])
                               ELSE NoObject,
                       performance_model |-> r.dict]

\* run_iron_ore_model
run_iron_ore_model(plant_capacity_mtpy, plant_capacity_factor) ==
    RMul(plant_capacity_mtpy, plant_capacity_factor)

-----------------------------------------------------------------------------
(* Integer arithmetic of the cost stage *)

\* <<q, r>> with x * y = q * c + r and 0 <= r < c, for 0 <= x < c <= 10^8,
\* taking y three bits at a time (15 * c stays below 2^31)
RECURSIVE MulQR(_, _, _)
MulQR(x, y, c) ==
    IF y = 0 THEN <<0, 0>>
    ELSE LET h == MulQR(x, y \div 8, c)
             r == 8 * h[2] + (y % 8) * x
         IN  <<8 * h[1] + (r \div c), r % c>>

\* floor(a * b / c) for a, b >= 0 and c > 0, without overflow of a * b
MulDiv(a, b, c) == (a \div c) * b + MulQR(a % c, b, c)[1]

\* a * b for two E5 decimals, as an E5 decimal
MulE5(a, b) == MulDiv(a, b, E5)

-----------------------------------------------------------------------------
(* x ** e as Python computes it, in thousandths, at the plant capacities
   0, CapStep, 2 * CapStep, ... (metric tonnes per year) *)

CapStep == 500

PowTable ==
    [ e45600 |-> <<0, 17011, 23335, 28074, 32009, 35437, 38509, 41314, 43908, 46330, 48611, 50770, 52825, 54788, 56671, 58483, 60229, 61918, 63553, 65139, 66681, 68181, 69643, 71069, 72461>>,
      e88741 |-> <<0, 248366, 459441, 658408, 849898, 1036015, 1217958, 1396502, 1572186, 1745409, 1916474, 2085620, 2253042, 2418897, 2583321, 2746427, 2908313, 3069062, 3228749, 3387441, 3545194, 3702061, 3858089, 4013321, 4167794>>,
      e64574 |-> <<0, 55314, 86541, 112442, 135396, 156382, 175920, 194333, 211833, 228573, 244666, 260197, 275235, 289835, 304042, 317894, 331422, 344654, 357612, 370318, 382789, 395042, 407089, 418943, 430616>>,
      e86564 |-> <<0, 216938, 395294, 561502, 720284, 873761, 1023140, 1169195, 1312463, 1453339, 1592122, 1729050, 1864313, 1998068, 2130447, 2261560, 2391502, 2520358, 2648198, 2775087, 2901082, 3026233, 3150585, 3274179, 3397054>>,
      e63325 |-> <<0, 51183, 79387, 102627, 123134, 141823, 159179, 175502, 190987, 205777, 219975, 233660, 246896, 259733, 272213, 284369, 296232, 307825, 319171, 330289, 341193, 351899, 362420, 372767, 382950>>,
      e59983 |-> <<0, 41584, 63022, 80374, 95512, 109191, 121810, 133610, 144752, 155348, 165483, 175219, 184607, 193687, 202491, 211046, 219377, 227501, 235436, 243197, 250796, 258244, 265551, 272727, 279779>>,
      e80000 |-> <<0, 144270, 251189, 347435, 437345, 522820, 604919, 684312, 761462, 836700, 910282, 982404, 1053225, 1122873, 1191457, 1259067, 1325782, 1391666, 1456780, 1521174, 1584893, 1647978, 1710465, 1772386, 1833771>> ]

LaborPowTable ==
    <<0, 6191, 7375, 8169, 8785, 9294, 9732, 10118, 10464, 10780, 11071, 11340, 11592, 11829, 12052, 12264, 12465, 12658, 12842, 13018, 13188, 13351, 13509, 13661, 13809>>

LaborPowReference == 43800

\* index of a plant capacity in the tables; undefined off the grid
Knot(cap) ==
    CHOOSE k \in 1..Len(LaborPowTable) : cap = RInt((k - 1) * CapStep)

\* plant_capacity_mtpy ** e, in thousandths
Pow(cap, e) == PowTable[e][Knot(cap)]

\* (plant_capacity_mtpy / 365 * 1000) ** 0.25242, in thousandths
LaborPow(cap) == LaborPowTable[Knot(cap)]

-----------------------------------------------------------------------------
(* Cost estimation: run_iron_ore_cost_model *)

model_year_CEPCI    == 5962     \* 596.2, in tenths
equation_year_CEPCI == 7088     \* 708.8, in tenths

\* model_year_CEPCI / equation_year_CEPCI * (whole + frac / 1e5) * capacity ** e, in dollars
Curve(whole, frac, cap, e) ==
    MulDiv(MulDiv(whole, Pow(cap, e), 1000) + MulDiv(frac, Pow(cap, e), 1000 * E5),
           model_year_CEPCI, equation_year_CEPCI)

\* variant: a year before the schedule reads the schedule's first year
Str_FirstYear(year) ==
    CASE year = 2029 -> "2030"
      [] year = 2030 -> "2030"
      [] year = 2031 -> "2031"
      [] year = 2032 -> "2032"

\* str(config.operational_year)
Str(year) ==
    CASE year = 2029 -> "2029"
      [] year = 2030 -> "2030"
      [] year = 2031 -> "2031"
      [] year = 2032 -> "2032"

\* variant: the field order of the class declarations (IronOreCosts' fields,
\* then IronOreCostModelOutputs' own)
CostFieldOrder_Declared ==
    << "capex_eaf_casting", "capex_shaft_furnace", "capex_oxygen_supply",
       "capex_h2_preheating", "capex_cooling_tower", "capex_piping",
       "capex_elec_instr", "capex_buildings_storage_water", "capex_misc",
       "labor_cost_annual_operation", "labor_cost_maintenance",
       "labor_cost_admin_support", "property_tax_insurance", "land_cost",
       "installation_cost", "total_plant_cost", "total_fixed_operating_cost",
       "labor_cost_fivemonth", "maintenance_materials_onemonth",
       "non_fuel_consumables_onemonth", "waste_disposal_onemonth",
       "monthly_energy_cost", "spare_parts_cost", "misc_owners_costs" >>

CostFieldOrder ==
    << "capex_eaf_casting", "capex_shaft_furnace", "capex_oxygen_supply",
       "capex_h2_preheating", "capex_cooling_tower", "capex_piping",
       "capex_elec_instr", "capex_buildings_storage_water", "capex_misc",
       "total_plant_cost", "labor_cost_annual_operation", "labor_cost_maintenance",
       "labor_cost_admin_support", "property_tax_insurance",
       "total_fixed_operating_cost", "labor_cost_fivemonth",
       "maintenance_materials_onemonth", "non_fuel_consumables_onemonth",
       "waste_disposal_onemonth", "monthly_energy_cost", "spare_parts_cost",
       "land_cost", "misc_owners_costs", "installation_cost" >>

CostFields == {CostFieldOrder[i] : i \in 1..Len(CostFieldOrder)}

\* the two capital items that depend on o2_heat_integration
capex_h2_preheating(config) ==
    IF config.o2_heat_integration
    THEN MulDiv(Curve(45, 69123, config.plant_capacity_mtpy, "e86564"), 6, 10)
    ELSE Curve(45, 69123, config.plant_capacity_mtpy, "e86564")

capex_cooling_tower_NoDiscount(config) ==
    Curve(2513, 8314, config.plant_capacity_mtpy, "e63325")

capex_cooling_tower(config) ==
    IF config.o2_heat_integration
    THEN MulDiv(Curve(2513, 8314, config.plant_capacity_mtpy, "e63325"), 7, 10)
    ELSE Curve(2513, 8314, config.plant_capacity_mtpy, "e63325")

total_plant_cost_NoMisc(config) ==
    Curve(352191, 52370, config.plant_capacity_mtpy, "e45600")
    + Curve(489, 68061, config.plant_capacity_mtpy, "e88741")
    + Curve(1715, 21508, config.plant_capacity_mtpy, "e64574")
    + capex_h2_preheating(config)
    + capex_cooling_tower(config)
    + Curve(11815, 72718, config.plant_capacity_mtpy, "e59983")
    + Curve(7877, 15146, config.plant_capacity_mtpy, "e59983")
    + Curve(1097, 81876, config.plant_capacity_mtpy, "e80000")

total_plant_cost(config) ==
    Curve(352191, 52370, config.plant_capacity_mtpy, "e45600")
    + Curve(489, 68061, config.plant_capacity_mtpy, "e88741")
    + Curve(1715, 21508, config.plant_capacity_mtpy, "e64574")
    + capex_h2_preheating(config)
    + capex_cooling_tower(config)
    + Curve(11815, 72718, config.plant_capacity_mtpy, "e59983")
    + Curve(7877, 15146, config.plant_capacity_mtpy, "e59983")
    + Curve(1097, 81876, config.plant_capacity_mtpy, "e80000")
    + config.capex_misc

\* the built-in ("placeholder") branch
CostPlaceholder(config) ==
    LET fs == config.feedstocks
        cap == config.plant_capacity_mtpy[1]
        tpc == total_plant_cost(config)
        labor_cost_annual_operation ==
            MulDiv(693759969, LaborPow(config.plant_capacity_mtpy), 10 * LaborPowReference)
        labor_cost_maintenance == MulDiv(tpc, 863, 100000)
        labor_cost_admin_support ==
            MulDiv(labor_cost_annual_operation + labor_cost_maintenance, 25, 100)
        property_tax_insurance == MulDiv(tpc, 2, 100)
        labor_cost_fivemonth ==
            MulDiv(labor_cost_annual_operation + labor_cost_maintenance
                       + labor_cost_admin_support, 5, 12)
        consumables ==
            MulE5(fs.raw_water_consumption, fs.raw_water_unitcost)
            + MulE5(fs.lime_consumption, fs.lime_unitcost)
            + MulE5(fs.carbon_consumption, fs.carbon_unitcost)
            + MulE5(fs.iron_ore_consumption, fs.iron_ore_pellet_unitcost)
        energy ==
            MulE5(fs.hydrogen_consumption, config.lcoh) * 1000
            + MulE5(fs.natural_gas_consumption,
                    fs.natural_gas_prices[Str(config.operational_year)])
            + MulE5(fs.electricity_consumption, fs.electricity_cost)
        two_percent_tpc == MulDiv(tpc, 2, 100)
        fuel_consumables_60day_supply_cost == MulDiv(consumables, cap * 60, 365 * E5)
        spare_parts_cost == MulDiv(tpc, 5, 1000)
        misc_owners_costs == MulDiv(tpc, 15, 100)
    IN  IF Str(config.operational_year) \notin DOMAIN fs.natural_gas_prices
        THEN [err |-> "KeyError", out |-> NoObject]
        ELSE [err |-> "",
              out |->
                [ capex_eaf_casting   |-> Curve(352191, 52370, config.plant_capacity_mtpy, "e45600"),
                  capex_shaft_furnace |-> Curve(489, 68061, config.plant_capacity_mtpy, "e88741"),
                  capex_oxygen_supply |-> Curve(1715, 21508, config.plant_capacity_mtpy, "e64574"),
                  capex_h2_preheating |-> capex_h2_preheating(config),
                  capex_cooling_tower |-> capex_cooling_tower(config),
                  capex_piping        |-> Curve(11815, 72718, config.plant_capacity_mtpy, "e59983"),
                  capex_elec_instr    |-> Curve(7877, 15146, config.plant_capacity_mtpy, "e59983"),
                  capex_buildings_storage_water |->
                      Curve(1097, 81876, config.plant_capacity_mtpy, "e80000"),
                  capex_misc          |-> config.capex_misc,
                  total_plant_cost    |-> tpc,
                  labor_cost_annual_operation |-> labor_cost_annual_operation,
                  labor_cost_maintenance      |-> labor_cost_maintenance,
                  labor_cost_admin_support    |-> labor_cost_admin_support,
                  property_tax_insurance      |-> property_tax_insurance,
                  total_fixed_operating_cost  |->
                      labor_cost_annual_operation + labor_cost_maintenance
                      + labor_cost_admin_support + property_tax_insurance,
                  labor_cost_fivemonth |-> labor_cost_fivemonth,
                  maintenance_materials_onemonth |->
                      MulDiv(fs.maintenance_materials_unitcost, cap, 12 * E5),
                  non_fuel_consumables_onemonth |-> MulDiv(consumables, cap, 12 * E5),
                  waste_disposal_onemonth |->
                      MulDiv(MulE5(fs.slag_disposal_unitcost, fs.slag_production),
                             cap, 12 * E5),
                  monthly_energy_cost |-> MulDiv(energy, cap, 12 * E5),
                  spare_parts_cost    |-> spare_parts_cost,
                  land_cost           |-> MulDiv(cap, 775, 1000),
                  misc_owners_costs   |-> misc_owners_costs,
                  installation_cost   |->
                      labor_cost_fivemonth + two_percent_tpc
                      + fuel_consumables_60day_supply_cost
                      + spare_parts_cost + misc_owners_costs ]]

\* the external branch: the tuple returned by the imported model is unpacked
\* positionally into the 24 names of CostFieldOrder
CostExternal(ext) ==
    IF ext.err # "" THEN [err |-> ext.err, out |-> NoObject]
    ELSE IF Len(ext.value) # Len(CostFieldOrder)
    THEN [err |-> "ValueError", out |-> NoObject]
    ELSE [err |-> "",
          out |-> [f \in CostFields |->
                      ext.value[CHOOSE i \in 1..Len(CostFieldOrder) : CostFieldOrder[i] = f]]]

\* variant: the built-in branch adds the one-month energy cost to the
\* installation cost
run_iron_ore_cost_model_EnergyInstalled(config, ext) ==
    LET cm == config.cost_model
        b  == CostPlaceholder(config)
    IN  IF cm = None
        THEN [err |-> "TypeError", out |-> NoObject, cost_model |-> cm, model_outputs |-> NoObject]
        ELSE IF cm.name = "placeholder"
        THEN [err |-> b.err,
              out |-> IF b.err # "" THEN b.out
                      ELSE [b.out EXCEPT !.installation_cost = @ + b.out.monthly_energy_cost],
              cost_model |-> cm, model_outputs |-> NoObject]
        ELSE LET r == ResolvePaths("cost", cm)
             IN  IF r.err # ""
                 THEN [err |-> r.err, out |-> NoObject, cost_model |-> r.dict,
                       model_outputs |-> NoObject]
                 ELSE [err |-> CostExternal(ext).err,
                       out |-> CostExternal(ext).out,
                       cost_model |-> r.dict,
                       model_outputs |-> IF ext.err = "" THEN ext.value ELSE NoObject]

\* run_iron_ore_cost_model(config); ext is what the imported external model
\* does when it is reached.  cost_model is the descriptor dict as the call leaves it.
run_iron_ore_cost_model(config, ext) ==
    LET cm == config.cost_model
    IN  IF cm = None
        THEN [err |-> "TypeError", out |-> NoObject, cost_model |-> cm, model_outputs |-> NoObject]
        ELSE IF cm.name = "placeholder"
        THEN [err |-> CostPlaceholder(config).err,
              out |-> CostPlaceholder(config).out,
              cost_model |-> cm, model_outputs |-> NoObject]
        ELSE LET r == ResolvePaths("cost", cm)
             IN  IF r.err # ""
                 THEN [err |-> r.err, out |-> NoObject, cost_model |-> r.dict,
                       model_outputs |-> NoObject]
                 ELSE [err |-> CostExternal(ext).err,
                       out |-> CostExternal(ext).out,
                       cost_model |-> r.dict,
                       model_outputs |-> IF ext.err = "" THEN ext.value ELSE NoObject]

-----------------------------------------------------------------------------
(* Financial breakeven: config construction and run_iron_ore_finance_model *)

CostConfigDefaults == [o2_heat_integration |-> TRUE, cost_model |-> None]

\* IronOreCostModelConfig(**kw)
IronOreCostModelConfig(kw) ==
    IF {"operational_year", "plant_capacity_mtpy", "lcoh", "capex_misc", "feedstocks"}
           \ DOMAIN kw # {}
    THEN [err |-> "TypeError", obj |-> NoObject]
    ELSE [err |-> "", obj |-> WithDefaults(kw, CostConfigDefaults)]

FinanceConfigDefaults ==
    [ o2_heat_integration |-> TRUE,
      financial_assumptions |-> <<>>,
      install_years |-> 3,
      gen_inflation |-> 0,
      save_plots |-> FALSE,
      show_plots |-> FALSE,
      output_dir |-> "./output/",
      design_scenario_id |-> 0 ]

\* IronOreFinanceModelConfig(**kw)
IronOreFinanceModelConfig(kw) ==
    IF {"plant_life", "plant_capacity_mtpy", "plant_capacity_factor",
        "iron_ore_production_mtpy", "lcoh", "grid_prices", "feedstocks", "costs"}
           \ DOMAIN kw # {}
    THEN [err |-> "TypeError", obj |-> NoObject]
    ELSE [err |-> "", obj |-> WithDefaults(kw, FinanceConfigDefaults)]

\* variant: sol reduced to its price entry
IronOreFinanceModelOutputs_PriceOnly(sol, summary, price_breakdown) ==
    [sol |-> [price |-> sol.price], summary |-> summary, price_breakdown |-> price_breakdown]

IronOreFinanceModelOutputs(sol, summary, price_breakdown) ==
    [sol |-> sol, summary |-> summary, price_breakdown |-> price_breakdown]

\* int(key) of a year key
IntOf(key) ==
    CASE key = "2029" -> 2029
      [] key = "2030" -> 2030
      [] key = "2031" -> 2031
      [] key = "2032" -> 2032

\* (1 + g) ** n for an E5 decimal g, as an E5 decimal
RECURSIVE Compound(_, _)
Compound(g, n) ==
    IF n = 0 THEN E5
    ELSE LET h  == Compound(g, n \div 2)
             sq == MulDiv(h, h, E5)
         IN  IF n % 2 = 1 THEN MulDiv(sq, E5 + g, E5) ELSE sq

\* ProFAST.ProFAST("blank")
ProFAST ==
    [ params |-> <<>>, capital_items |-> <<>>, fixed_costs |-> <<>>,
      feedstocks |-> <<>>, coproducts |-> <<>>,
      solves |-> 0, answers |-> NoObject, plots |-> <<>> ]

\* pf.set_params(name, value): the named parameter takes the value
set_params(p, name, value) ==
    [p EXCEPT !.params = (name :> value) @@ @]

\* variant: a parameter that already has a value keeps it
SetAll_KeepExisting(p, pairs) ==
    LET named(k) == {i \in DOMAIN pairs : pairs[i][1] = k}
        last(k)  == CHOOSE i \in named(k) : \A j \in named(k) : j <= i
    IN  [p EXCEPT !.params =
            [k \in DOMAIN p.params \cup {pairs[i][1] : i \in DOMAIN pairs} |->
                IF k \in DOMAIN p.params THEN p.params[k]
                ELSE set_params(ProFAST, k, pairs[last(k)][2]).params[k]]]

\* pf.set_params called once for each <<name, value>> pair of a sequence, in
\* order: a name takes the value of its last pair, any other name keeps its own
SetAll(p, pairs) ==
    LET named(k) == {i \in DOMAIN pairs : pairs[i][1] = k}
        last(k)  == CHOOSE i \in named(k) : \A j \in named(k) : j <= i
    IN  [p EXCEPT !.params =
            [k \in DOMAIN p.params \cup {pairs[i][1] : i \in DOMAIN pairs} |->
                IF named(k) = {} THEN p.params[k]
                ELSE set_params(ProFAST, k, pairs[last(k)][2]).params[k]]]

add_capital_item(p, name, cost) ==
    [p EXCEPT !.capital_items =
        Append(@, [name |-> name, cost |-> cost, depr_type |-> "MACRS",
                   depr_period |-> 7, refurb |-> <<0>>])]

add_fixed_cost(p, name, cost, escalation) ==
    [p EXCEPT !.fixed_costs =
        Append(@, [name |-> name, usage |-> 1, unit |-> "$/year",
                   cost |-> cost, escalation |-> escalation])]

add_feedstock(p, name, usage, unit, cost, escalation) ==
    [p EXCEPT !.feedstocks =
        Append(@, [name |-> name, usage |-> usage, unit |-> unit,
                   cost |-> cost, escalation |-> escalation])]

add_coproduct(p, name, usage, unit, cost, escalation) ==
    [p EXCEPT !.coproducts =
        Append(@, [name |-> name, usage |-> usage, unit |-> unit,
                   cost |-> cost, escalation |-> escalation])]

\* pf.add_capital_item called once for each item of a sequence, in order
AddCapitalItems(p, items) ==
    [p EXCEPT !.capital_items =
        @ \o [i \in 1..Len(items) |->
                 add_capital_item(ProFAST, items[i][1], items[i][2]).capital_items[1]]]

\* pf.add_fixed_cost called once for each item of a sequence, in order
AddFixedCosts(p, items) ==
    [p EXCEPT !.fixed_costs =
        @ \o [i \in 1..Len(items) |->
                 add_fixed_cost(ProFAST, items[i][1], items[i][2],
                                items[i][3]).fixed_costs[1]]]

\* pf.add_feedstock called once for each item of a sequence, in order
AddFeedstocks(p, items) ==
    [p EXCEPT !.feedstocks =
        @ \o [i \in 1..Len(items) |->
                 add_feedstock(ProFAST, items[i][1], items[i][2], items[i][3],
                               items[i][4], items[i][5]).feedstocks[1]]]

\* variant: the year of the last key of the schedule
analysis_start_LastKey(config) ==
    IntOf(config.grid_prices[Len(config.grid_prices)][1]) - config.install_years

\* line 745: int(list(config.grid_prices.keys())[0]) - config.install_years
analysis_start(config) ==
    IntOf(config.grid_prices[1][1]) - config.install_years

\* the parameters the stage sets itself, in order
StageParams(config) ==
    LET costs == config.costs
        infl  == config.gen_inflation
    IN  << <<"commodity", [name |-> "iron ore", unit |-> "metric tonnes",
                           initial_price |-> 1000, escalation |-> infl]>>,
           <<"capacity", RDiv(config.plant_capacity_mtpy, RInt(365))>>,
           <<"maintenance", [value |-> 0, escalation |-> infl]>>,
           <<"analysis start year", analysis_start(config)>>,
           <<"operating life", config.plant_life>>,
           <<"installation months", 12 * config.install_years>>,
           <<"installation cost", [value |-> costs.installation_cost,
                                   depr_type |-> "Straight line",
                                   depr_period |-> 4, depreciable |-> FALSE]>>,
           <<"non depr assets", costs.land_cost>>,
           <<"end of proj sale non depr assets",
             MulDiv(costs.land_cost, Compound(infl, config.plant_life), E5)>>,
           <<"demand rampup", <<53, 10>> >>,
           <<"long term utilization", config.plant_capacity_factor>>,
           <<"credit card fees", 0>>,
           <<"sales tax", 0>>,
           <<"license and permit", [value |-> 0, escalation |-> infl]>>,
           <<"rent", [value |-> 0, escalation |-> infl]>>,
           <<"property tax and insurance", 0>>,
           <<"admin expense", 0>>,
           <<"sell undepreciated cap", TRUE>>,
           <<"tax losses monetized", TRUE>>,
           <<"general inflation rate", infl>>,
           <<"debt type", "Revolving debt">>,
           <<"cash onhand", 1>> >>

\* variant: spare parts, when the costs object has them, added to the
\* miscellaneous capital item
CapitalItems_WithSpareParts(costs) ==
    << <<"EAF & Casting", costs.capex_eaf_casting>>,
       <<"Shaft Furnace", costs.capex_shaft_furnace>>,
       <<"Oxygen Supply", costs.capex_oxygen_supply>>,
       <<"H2 Pre-heating", costs.capex_h2_preheating>>,
       <<"Cooling Tower", costs.capex_cooling_tower>>,
       <<"Piping", costs.capex_piping>>,
       <<"Electrical & Instrumentation", costs.capex_elec_instr>>,
       <<"Buildings, Storage, Water Service", costs.capex_buildings_storage_water>>,
       <<"Other Miscellaneous Costs",
         IF "spare_parts_cost" \in DOMAIN costs
         THEN costs.capex_misc + costs.spare_parts_cost
         ELSE costs.capex_misc>> >>

CapitalItems(costs) ==
    << <<"EAF & Casting", costs.capex_eaf_casting>>,
       <<"Shaft Furnace", costs.capex_shaft_furnace>>,
       <<"Oxygen Supply", costs.capex_oxygen_supply>>,
       <<"H2 Pre-heating", costs.capex_h2_preheating>>,
       <<"Cooling Tower", costs.capex_cooling_tower>>,
       <<"Piping", costs.capex_piping>>,
       <<"Electrical & Instrumentation", costs.capex_elec_instr>>,
       <<"Buildings, Storage, Water Service", costs.capex_buildings_storage_water>>,
       <<"Other Miscellaneous Costs", costs.capex_misc>> >>

\* variant: property tax and insurance escalated like the labor costs
FixedCosts_AllEscalated(config) ==
    << <<"Annual Operating Labor Cost", config.costs.labor_cost_annual_operation,
         config.gen_inflation>>,
       <<"Maintenance Labor Cost", config.costs.labor_cost_maintenance, config.gen_inflation>>,
       <<"Administrative & Support Labor Cost", config.costs.labor_cost_admin_support,
         config.gen_inflation>>,
       <<"Property tax and insurance", config.costs.property_tax_insurance,
         config.gen_inflation>> >>

FixedCosts(config) ==
    << <<"Annual Operating Labor Cost", config.costs.labor_cost_annual_operation,
         config.gen_inflation>>,
       <<"Maintenance Labor Cost", config.costs.labor_cost_maintenance, config.gen_inflation>>,
       <<"Administrative & Support Labor Cost", config.costs.labor_cost_admin_support,
         config.gen_inflation>>,
       <<"Property tax and insurance", config.costs.property_tax_insurance, 0>> >>

FeedstockItems(config) ==
    LET fs   == config.feedstocks
        infl == config.gen_inflation
    IN  << <<"Maintenance Materials", E5, "Units per metric tonne of iron ore",
             fs.maintenance_materials_unitcost, infl>>,
           <<"Raw Water Withdrawal", fs.raw_water_consumption,
             "metric tonnes of water per metric tonne of iron ore",
             fs.raw_water_unitcost, infl>>,
           <<"Lime", fs.lime_consumption,
             "metric tonnes of lime per metric tonne of iron ore", fs.lime_unitcost, infl>>,
           <<"Carbon", fs.carbon_consumption,
             "metric tonnes of carbon per metric tonne of iron ore", fs.carbon_unitcost, infl>>,
           <<"Iron Ore", fs.iron_ore_consumption,
             "metric tonnes of iron ore per metric tonne of iron",
             fs.iron_ore_pellet_unitcost, infl>>,
           <<"Hydrogen", fs.hydrogen_consumption,
             "metric tonnes of hydrogen per metric tonne of iron ore",
             config.lcoh * 1000, infl>>,
           <<"Natural Gas", fs.natural_gas_consumption,
             "GJ-LHV per metric tonne of iron ore", fs.natural_gas_prices, infl>>,
           <<"Electricity", fs.electricity_consumption,
             "MWh per metric tonne of iron ore", config.grid_prices, infl>>,
           <<"Slag Disposal", fs.slag_production,
             "metric tonnes of slag per metric tonne of iron ore",
             fs.slag_disposal_unitcost, infl>> >>

\* variant: the oxygen sales registered only with o2_heat_integration
AssembleProFAST_O2Gated(config) ==
    IF config.grid_prices = <<>>
    THEN [err |-> "IndexError", pf |-> NoObject]
    ELSE LET q == AddFeedstocks(
                      AddFixedCosts(
                          AddCapitalItems(
                              SetAll(SetAll(ProFAST, config.financial_assumptions),
                                     StageParams(config)),
                              CapitalItems(config.costs)),
                          FixedCosts(config)),
                      FeedstockItems(config))
         IN  [err |-> "",
              pf |-> IF config.o2_heat_integration
                     THEN add_coproduct(q, "Oxygen sales", config.feedstocks.excess_oxygen,
                                        "kg O2 per metric tonne of iron ore",
                                        config.feedstocks.oxygen_market_price,
                                        config.gen_inflation)
                     ELSE q]

\* lines 735-961 of run_iron_ore_finance_model: the ProFAST object as it is
\* when the solve is invoked, or the error raised on the way
AssembleProFAST(config) ==
    IF config.grid_prices = <<>>
    THEN [err |-> "IndexError", pf |-> NoObject]
    ELSE [err |-> "",
          pf |-> add_coproduct(
                     AddFeedstocks(
                         AddFixedCosts(
                             AddCapitalItems(
                                 SetAll(SetAll(ProFAST, config.financial_assumptions),
                                        StageParams(config)),
                                 CapitalItems(config.costs)),
                             FixedCosts(config)),
                         FeedstockItems(config)),
                     "Oxygen sales", config.feedstocks.excess_oxygen,
                     "kg O2 per metric tonne of iron ore",
                     config.feedstocks.oxygen_market_price, config.gen_inflation)]

\* pf.solve_price(), pf.get_summary_vals(), pf.get_cost_breakdown(): the solver
\* runs once and either raises or answers
solve_price_Retry(p, outcome) ==
    IF outcome.err # ""
    THEN [err |-> "", pf |-> [p EXCEPT !.solves = @ + 2,
                                       !.answers = [sol |-> [price |-> 0, irr |-> 0],
                                                    summary |-> "summary-0",
                                                    price_breakdown |-> "breakdown-0"]]]
    ELSE [err |-> "", pf |-> [p EXCEPT !.solves = @ + 1, !.answers = outcome.answers]]

solve_price(p, outcome) ==
    IF outcome.err # ""
    THEN [err |-> outcome.err, pf |-> [p EXCEPT !.solves = @ + 1]]
    ELSE [err |-> "", pf |-> [p EXCEPT !.solves = @ + 1, !.answers = outcome.answers]]

\* the artifacts of lines 969-997: four directories and four files
Artifacts(config) ==
    IF config.save_plots \/ config.show_plots
    THEN { <<config.output_dir, "figures/capex/">>,
           <<config.output_dir, "figures/annual_cash_flow/">>,
           <<config.output_dir, "figures/lcos_breakdown/">>,
           <<config.output_dir, "data/">>,
           <<config.output_dir, "figures/capex/iron_ore_capital_expense.pdf",
             config.design_scenario_id>>,
           <<config.output_dir, "figures/annual_cash_flow/iron_ore_cash_flow.png",
             config.design_scenario_id>>,
           <<config.output_dir, "data/iron_ore_cash_flow.csv", config.design_scenario_id>>,
           <<config.output_dir, "figures/lcos_breakdown/lcos", config.design_scenario_id>> }
    ELSE {}

\* the three plot calls of lines 980-997, made only when a plot flag is set
Plots(p, config) ==
    IF config.save_plots \/ config.show_plots
    THEN [p EXCEPT !.plots = @ \o << <<"plot_capital_expenses", config.show_plots>>,
                                     <<"plot_cashflow", config.show_plots>>,
                                     <<"plot_costs", config.show_plots>> >>]
    ELSE p

-----------------------------------------------------------------------------
(* Orchestration: run_iron_ore_full_model *)

\* copy.deepcopy(d): a new dict that shares no nested dict with d.  shared
\* names the nested dicts of the copy that are still d's own objects.
deepcopy_Shallow(d) == [value |-> d, shared |-> DOMAIN d]

deepcopy(d) == [value |-> d, shared |-> {}]

\* variant: d.setdefault(key, value), which keeps an entry d already has
SetItem_KeepExisting(d, key, value) ==
    [k \in DOMAIN d \cup {key} |-> IF k \in DOMAIN d THEN d[k] ELSE value]

\* d[key] = value
SetItem(d, key, value) ==
    [k \in DOMAIN d \cup {key} |-> IF k = key THEN value ELSE d[k]]

\* f(name=..., **d): a key given both ways raises TypeError
CallKwargs(explicit, d) ==
    IF DOMAIN explicit \cap DOMAIN d # {}
    THEN [err |-> "TypeError", kw |-> NoObject]
    ELSE [err |-> "",
          kw |-> [k \in DOMAIN explicit \cup DOMAIN d |->
                     IF k \in DOMAIN explicit THEN explicit[k] ELSE d[k]]]

\* variant: the two lookups without the comparison
LcohGate_NoCheck(config) ==
    IF "lcoh" \notin DOMAIN config.costs \/ "lcoh" \notin DOMAIN config.finances
    THEN "KeyError"
    ELSE ""

\* the consistency check of lines 1023-1028; "" when it passes
LcohGate(config) ==
    IF "lcoh" \notin DOMAIN config.costs \/ "lcoh" \notin DOMAIN config.finances
    THEN "KeyError"
    ELSE IF config.costs.lcoh # config.finances.lcoh
    THEN "ValueError: iron ore cost LCOH and iron ore finance LCOH are not equal"
    ELSE ""

\* where the runner is after a call that raised err ("" when it returned):
\* nothing in the runner catches an exception
NextPc_Swallow(err, next) == next

NextPc(err, next) == IF err # "" THEN "rf_raised" ELSE next

\* variant: the annual production passed as the plant capacity
FinanceKwargs_ProductionAsCapacity(capacity, cap_config, costs, ra, finances) ==
    CallKwargs(
        [ plant_capacity_mtpy |->
              run_iron_ore_model(capacity.iron_ore_plant_capacity_mtpy,
                                 cap_config.input_capacity_factor_estimate),
          plant_capacity_factor |-> cap_config.input_capacity_factor_estimate,
          iron_ore_production_mtpy |->
              run_iron_ore_model(capacity.iron_ore_plant_capacity_mtpy,
                                 cap_config.input_capacity_factor_estimate),
          costs |-> costs,
          show_plots |-> ra.show_plots,
          save_plots |-> ra.save_plots,
          output_dir |-> ra.output_dir,
          design_scenario_id |-> ra.design_scenario_id ],
        finances)

\* the keyword arguments of lines 1057-1070
FinanceKwargs(capacity, cap_config, costs, ra, finances) ==
    CallKwargs(
        [ plant_capacity_mtpy |-> capacity.iron_ore_plant_capacity_mtpy,
          plant_capacity_factor |-> cap_config.input_capacity_factor_estimate,
          iron_ore_production_mtpy |->
              run_iron_ore_model(capacity.iron_ore_plant_capacity_mtpy,
                                 cap_config.input_capacity_factor_estimate),
          costs |-> costs,
          show_plots |-> ra.show_plots,
          save_plots |-> ra.save_plots,
          output_dir |-> ra.output_dir,
          design_scenario_id |-> ra.design_scenario_id ],
        finances)

-----------------------------------------------------------------------------
(* Inputs of the capacity stage *)

Years == {"2030", "2031"}

NaturalGasPrices == [y \in Years |-> IF y = "2030" THEN 400000 ELSE 450000]

PlaceholderModel == [name |-> "placeholder", model_fp |-> "", inputs_fp |-> "", coeffs_fp |-> ""]

ModelDescriptors ==
    { PlaceholderModel,
      [name |-> "registered", model_fp |-> "", inputs_fp |-> "", coeffs_fp |-> ""],
      [name |-> "registered", model_fp |-> "cfg/model", inputs_fp |-> "", coeffs_fp |-> "cfg/coeffs"],
      [name |-> "unknown", model_fp |-> "", inputs_fp |-> "cfg/inputs", coeffs_fp |-> "cfg/coeffs"],
      [name |-> "unknown", model_fp |-> "cfg/model", inputs_fp |-> "cfg/inputs", coeffs_fp |-> "cfg/coeffs"] }

SupplyQuantities == {None} \cup {RInt(k * 100000) : k \in 0..MaxSupplySteps}
DemandQuantities == {None} \cup {RInt(k * 500) : k \in 0..MaxDemandSteps}
CapacityFactors  == {Rat(0, 1), Rat(1, 2), Rat(9, 10), Rat(1, 1)}

\* what an imported external performance model can do: fail, or return a pair
ExtSizeOutcomes ==
    { [err |-> "ImportError", value |-> <<>>],
      [err |-> "", value |-> <<RInt(1000), RInt(100000)>>] }

NoExt == [err |-> "", value |-> <<>>]

-----------------------------------------------------------------------------
(* SpecSize: a capacity config is constructed from keyword arguments and sized;
   the result of a supply-mode sizing is then sized back in demand mode. *)

CostIdle ==
    /\ iron_ore_cost_config = NoObject
    /\ iron_ore_costs = NoObject
    /\ alt_costs = NoObject
    /\ model_outputs = NoObject

RunIdle ==
    /\ greenheart_config = NoObject
    /\ snapshot = NoObject
    /\ iron_ore_config = NoObject
    /\ shared = {}
    /\ run_args = NoObject
    /\ feedstocks = NoObject
    /\ iron_ore_finance_config = NoObject
    /\ pf = NoObject
    /\ alt_pf = NoObject
    /\ iron_ore_finance = NoObject
    /\ result = NoObject
    /\ runs = 0
    /\ files = {}
    /\ collaborators = NoObject
    /\ iron_win = NoObject

InitSize ==
    /\ pc = "sz_args"
    /\ CostIdle
    /\ RunIdle
    /\ args \in [ input_capacity_factor_estimate : CapacityFactors,
                  feedstocks : { Feedstocks([natural_gas_prices |-> NaturalGasPrices]),
                                 Feedstocks([natural_gas_prices |-> NaturalGasPrices,
                                             hydrogen_consumption |-> 10000]) },
                  hydrogen_amount_kgpy : SupplyQuantities,
                  desired_iron_ore_mtpy : DemandQuantities,
                  performance_model : {None} \cup ModelDescriptors ]
    /\ capacity_config = NoObject
    /\ iron_ore_capacity = NoObject
    /\ inv_config = NoObject
    /\ inv_capacity = NoObject
    /\ error = ""
    /\ calls = <<>>
    /\ ToolsIdle

\* capacity_config = IronOreCapacityModelConfig(**args)
SzConstruct ==
    /\ pc = "sz_args"
    /\ LET r == IronOreCapacityModelConfig(args)
       IN  /\ capacity_config' = r.obj
           /\ error' = r.err
           /\ pc' = IF r.err = "" THEN "sz_config" ELSE "sz_rejected"
    /\ UNCHANGED <<args, iron_ore_capacity, inv_config, inv_capacity, calls, costVars, runVars>>

\* iron_ore_capacity = run_size_iron_ore_plant_capacity(capacity_config)
SzRun ==
    /\ pc = "sz_config"
    /\ \E ext \in ExtSizeOutcomes :
         LET r == run_size_iron_ore_plant_capacity(capacity_config, ext)
         IN  /\ iron_ore_capacity' = r.out
             /\ capacity_config' = [capacity_config EXCEPT !.performance_model = r.performance_model]
             /\ error' = r.err
             /\ pc' = IF r.err = "" THEN "sz_sized" ELSE "sz_failed"
    /\ calls' = Append(calls, "size")
    /\ UNCHANGED <<args, inv_config, inv_capacity, costVars, runVars>>

\* the product quantity of a sized plant, sized again in demand mode with the
\* same consumption rate and capacity factor
SzInvert ==
    /\ pc = "sz_sized"
    /\ Truthy(capacity_config.hydrogen_amount_kgpy)
    /\ capacity_config.performance_model = PlaceholderModel
    /\ LET cf == capacity_config.input_capacity_factor_estimate
           c  == IronOreCapacityModelConfig(
                     [capacity_config EXCEPT
                         !.hydrogen_amount_kgpy = None,
                         !.desired_iron_ore_mtpy =
                             RMul(iron_ore_capacity.iron_ore_plant_capacity_mtpy, cf)])
       IN  IF c.err # ""
           THEN /\ inv_config' = NoObject
                /\ inv_capacity' = NoObject
                /\ error' = c.err
                /\ pc' = "sz_inv_failed"
                /\ calls' = calls
           ELSE LET r == run_size_iron_ore_plant_capacity(c.obj, NoExt)
                IN  /\ inv_config' = c.obj
                    /\ inv_capacity' = r.out
                    /\ error' = r.err
                    /\ pc' = IF r.err = "" THEN "sz_inverted" ELSE "sz_inv_failed"
                    /\ calls' = Append(calls, "size")
    /\ UNCHANGED <<args, capacity_config, iron_ore_capacity, costVars, runVars>>

NextSize == SzConstruct \/ SzRun \/ SzInvert

SpecSize == InitSize /\ [][NextSize]_vars

-----------------------------------------------------------------------------
(* Claims about capacity sizing *)

BothSet(a)    == a.hydrogen_amount_kgpy # None /\ a.desired_iron_ore_mtpy # None
NeitherSet(a) == a.hydrogen_amount_kgpy = None /\ a.desired_iron_ore_mtpy = None

\* C1: construction of a capacity config succeeds only when exactly one of
\* hydrogen_amount_kgpy and desired_iron_ore_mtpy is set (not None); when both
\* are set (including the value 0) or neither, it raises a configuration
\* error, no config object exists and no sizing has run.
C1_ExactlyOneQuantity ==
    (pc \in {"sz_config", "sz_rejected", "sz_sized", "sz_failed"}) =>
        IF BothSet(args) \/ NeitherSet(args)
        THEN pc = "sz_rejected" /\ error # ""
             /\ capacity_config = NoObject /\ calls = <<>>
        ELSE capacity_config # NoObject

\* C2: for S > 0, consumption rate h > 0 and capacity factor cf in (0, 1],
\* sizing in supply mode from S and then in demand mode from C x cf returns
\* the hydrogen amount S.
C2_Invertibility ==
    (/\ pc = "sz_inverted"
     /\ capacity_config.hydrogen_amount_kgpy[1] > 0
     /\ capacity_config.feedstocks.hydrogen_consumption > 0
     /\ capacity_config.input_capacity_factor_estimate[1] > 0) =>
        inv_capacity.hydrogen_amount_kgpy = capacity_config.hydrogen_amount_kgpy

-----------------------------------------------------------------------------
(* SpecCost: a cost config is run through the cost stage, and then once more
   with o2_heat_integration flipped and everything else the same. *)

MaxCapSteps == 3        \* plant_capacity_mtpy ranges over 0..MaxCapSteps capacity steps

FeedstockChoices ==
    { Feedstocks([natural_gas_prices |-> NaturalGasPrices]),
      Feedstocks([natural_gas_prices |-> NaturalGasPrices, hydrogen_consumption |-> 10000,
                  slag_disposal_unitcost |-> 4000000, electricity_cost |-> 6000000,
                  maintenance_materials_unitcost |-> 900000]) }

\* a tuple of n equal entries v
Repeat(v, n) == [i \in 1..n |-> v]

\* what an imported external cost model can do: fail, or return a tuple
ExtCostOutcomes ==
    { [err |-> "ImportError", value |-> <<>>],
      [err |-> "", value |-> Repeat(0, 24)],
      [err |-> "", value |-> Repeat(1000, 24)],
      [err |-> "", value |-> Repeat(1000, 23)],
      [err |-> "", value |-> [i \in 1..24 |-> 1000 * i]],
      [err |-> "", value |-> [i \in 1..23 |-> 1000 * i]] }

InitCost ==
    /\ pc = "cm_config"
    /\ error = ""
    /\ calls = <<>>
    /\ args = NoObject
    /\ capacity_config = NoObject
    /\ iron_ore_capacity = NoObject
    /\ inv_config = NoObject
    /\ inv_capacity = NoObject
    /\ iron_ore_cost_config \in
         [ operational_year : {2029, 2030},
           plant_capacity_mtpy : {RInt(k * CapStep) : k \in 0..MaxCapSteps},
           lcoh : {317000, 450000},
           capex_misc : {0, 250000},
           feedstocks : FeedstockChoices,
           o2_heat_integration : BOOLEAN,
           cost_model : {None, PlaceholderModel,
                         [name |-> "registered", model_fp |-> "",
                          inputs_fp |-> "", coeffs_fp |-> ""],
                         [name |-> "unknown", model_fp |-> "",
                          inputs_fp |-> "", coeffs_fp |-> ""]} ]
    /\ iron_ore_costs = NoObject
    /\ alt_costs = NoObject
    /\ model_outputs = NoObject
    /\ RunIdle
    /\ ToolsIdle

\* iron_ore_costs = run_iron_ore_cost_model(iron_ore_cost_config)
CmRun ==
    /\ pc = "cm_config"
    /\ \E ext \in ExtCostOutcomes :
         LET r == run_iron_ore_cost_model(iron_ore_cost_config, ext)
         IN  /\ iron_ore_costs' = r.out
             /\ iron_ore_cost_config' = [iron_ore_cost_config EXCEPT !.cost_model = r.cost_model]
             /\ model_outputs' = r.model_outputs
             /\ error' = r.err
             /\ pc' = IF r.err = "" THEN "cm_done" ELSE "cm_failed"
    /\ calls' = Append(calls, "cost")
    /\ UNCHANGED <<alt_costs, sizeVars, runVars>>

\* alt_costs = run_iron_ore_cost_model(the same config, flag flipped)
CmRunFlipped ==
    /\ pc = "cm_done"
    /\ \E ext \in ExtCostOutcomes :
         LET r == run_iron_ore_cost_model(
                      [iron_ore_cost_config EXCEPT
                          !.o2_heat_integration = ~iron_ore_cost_config.o2_heat_integration],
                      ext)
         IN  /\ alt_costs' = r.out
             /\ model_outputs' = r.model_outputs
             /\ error' = r.err
             /\ pc' = IF r.err = "" THEN "cm_both" ELSE "cm_alt_failed"
    /\ calls' = Append(calls, "cost")
    /\ UNCHANGED <<iron_ore_cost_config, iron_ore_costs, sizeVars, runVars>>

\* other prices for the inputs of the one-month sub-costs: lcoh, the natural
\* gas schedule (same years), and the electricity, slag disposal and
\* maintenance materials unit costs
Repricings ==
    { [ lcoh |-> l, natural_gas_prices |-> g, electricity_cost |-> u[1],
        slag_disposal_unitcost |-> u[2], maintenance_materials_unitcost |-> u[3] ] :
        l \in {900000},
        g \in {NaturalGasPrices, [y \in Years |-> 1200000]},
        u \in {<<4892000, 3763000, 772000>>, <<9000000, 100000, 2000000>>} }

Repriced(config, r) ==
    [config EXCEPT
        !.lcoh = r.lcoh,
        !.feedstocks =
            [@ EXCEPT !.natural_gas_prices = r.natural_gas_prices,
                      !.electricity_cost = r.electricity_cost,
                      !.slag_disposal_unitcost = r.slag_disposal_unitcost,
                      !.maintenance_materials_unitcost = r.maintenance_materials_unitcost]]

\* alt_costs = run_iron_ore_cost_model(the same config at other prices)
CmRunRepriced ==
    /\ pc = "cm_done"
    /\ \E ext \in ExtCostOutcomes, r \in Repricings :
         LET res == run_iron_ore_cost_model(Repriced(iron_ore_cost_config, r), ext)
         IN  /\ alt_costs' = res.out
             /\ model_outputs' = res.model_outputs
             /\ error' = res.err
             /\ pc' = IF res.err = "" THEN "cm_repriced" ELSE "cm_alt_failed"
    /\ calls' = Append(calls, "cost")
    /\ UNCHANGED <<iron_ore_cost_config, iron_ore_costs, sizeVars, runVars>>

NextCost == CmRun \/ CmRunFlipped \/ CmRunRepriced

SpecCost == InitCost /\ [][NextCost]_vars

-----------------------------------------------------------------------------
(* Claims about cost estimation *)

SumOfCapitalItems(o) ==
    o.capex_eaf_casting + o.capex_shaft_furnace + o.capex_oxygen_supply
    + o.capex_h2_preheating + o.capex_cooling_tower + o.capex_piping
    + o.capex_elec_instr + o.capex_buildings_storage_water + o.capex_misc

SumOfFixedItems(o) ==
    o.labor_cost_annual_operation + o.labor_cost_maintenance
    + o.labor_cost_admin_support + o.property_tax_insurance

Additive(o) ==
    /\ o.total_plant_cost = SumOfCapitalItems(o)
    /\ o.total_fixed_operating_cost = SumOfFixedItems(o)

BuiltInCost == iron_ore_cost_config.cost_model # None
               /\ iron_ore_cost_config.cost_model.name = "placeholder"

\* C5 as stated: every CostModelOutputs returned by the cost stage, from the
\* built-in branch or from the external-model branch, has total_plant_cost
\* equal to the sum of the 9 capital line items and total_fixed_operating_cost
\* equal to the sum of the 4 fixed-cost items.
C5_AdditiveEveryBranch ==
    (pc \in {"cm_done", "cm_both", "cm_alt_failed"}) => Additive(iron_ore_costs)

\* C5 amended: every CostModelOutputs returned by the built-in branch of the
\* cost stage has total_plant_cost equal to the sum of the 9 capital line
\* items and total_fixed_operating_cost equal to the sum of the 4 fixed-cost
\* items.
C5_AdditiveBuiltIn ==
    (pc \in {"cm_done", "cm_both", "cm_alt_failed"} /\ BuiltInCost) => Additive(iron_ore_costs)

C5_Witness ==
    /\ pc = "cm_done"
    /\ BuiltInCost
    /\ iron_ore_cost_config.capex_misc > 0
    /\ iron_ore_cost_config.plant_capacity_mtpy[1] > 0
    /\ iron_ore_costs.total_plant_cost > iron_ore_costs.capex_misc
    /\ Additive(iron_ore_costs)

\* the outputs for the flag enabled and for the flag disabled
FlagOn  == IF iron_ore_cost_config.o2_heat_integration THEN iron_ore_costs ELSE alt_costs
FlagOff == IF iron_ore_cost_config.o2_heat_integration THEN alt_costs ELSE iron_ore_costs

FlagItems == {"capex_h2_preheating", "capex_cooling_tower"}

\* outputs computed from total_plant_cost
TotalDerived ==
    {"total_plant_cost", "labor_cost_maintenance", "labor_cost_admin_support",
     "property_tax_insurance", "total_fixed_operating_cost", "labor_cost_fivemonth",
     "spare_parts_cost", "misc_owners_costs", "installation_cost"}

\* C6 as stated: with the flag enabled capex_h2_preheating and
\* capex_cooling_tower are strictly smaller than with the flag disabled, for
\* every plant capacity, and every other line item of the output is identical.
C6_FlagOnlyChangesTwoItems ==
    (pc = "cm_both") =>
        /\ \A f \in FlagItems : FlagOn[f] < FlagOff[f]
        /\ \A f \in CostFields \ FlagItems : FlagOn[f] = FlagOff[f]

\* C6 amended: in the built-in branch, for every plant capacity greater than
\* 0, the flag enabled gives capex_h2_preheating and capex_cooling_tower
\* strictly smaller than the flag disabled; the other seven capital line
\* items and every output not computed from total_plant_cost are identical;
\* total_plant_cost is strictly smaller and the outputs computed from it are
\* not larger.
C6_FlagMonotone ==
    (pc = "cm_both" /\ BuiltInCost /\ iron_ore_cost_config.plant_capacity_mtpy[1] > 0) =>
        /\ \A f \in FlagItems : FlagOn[f] < FlagOff[f]
        /\ \A f \in CostFields \ (FlagItems \cup TotalDerived) : FlagOn[f] = FlagOff[f]
        /\ FlagOn.total_plant_cost < FlagOff.total_plant_cost
        /\ \A f \in TotalDerived : FlagOn[f] <= FlagOff[f]

C6_Witness ==
    /\ pc = "cm_both"
    /\ BuiltInCost
    /\ iron_ore_cost_config.plant_capacity_mtpy[1] > 0
    /\ FlagOn.capex_cooling_tower < FlagOff.capex_cooling_tower
    /\ FlagOn.capex_piping = FlagOff.capex_piping
    /\ FlagOn.installation_cost < FlagOff.installation_cost

-----------------------------------------------------------------------------
(* Spec: run_iron_ore_full_model called, up to MaxRuns times, on one
   greenheart_config by a caller that keeps the config between the calls. *)

MaxRuns == 2            \* calls of the runner on the same configuration

BaseCosts ==
    [ operational_year |-> 2030, lcoh |-> 317000, capex_misc |-> 0,
      o2_heat_integration |-> TRUE,
      feedstocks |-> [natural_gas_prices |-> NaturalGasPrices,
                      hydrogen_consumption |-> 10000] ]

GridPrices == << <<"2030", 5000000>>, <<"2031", 5100000>> >>

BaseFinances ==
    [ lcoh |-> 317000, plant_life |-> 30, grid_prices |-> GridPrices,
      gen_inflation |-> 0, financial_assumptions |-> <<>> ]

BaseCapacity ==
    [ input_capacity_factor_estimate |-> Rat(1, 2), hydrogen_amount_kgpy |-> RInt(100000) ]

BaseRunArgs ==
    [ save_plots |-> FALSE, show_plots |-> FALSE,
      output_dir |-> "./output/", design_scenario_id |-> 0 ]

Config(costs, finances, capacity, performance_model, cost_model) ==
    [ costs |-> costs, finances |-> finances, capacity |-> capacity,
      performance_model |-> performance_model, cost_model |-> cost_model ]

BaseConfig == Config(BaseCosts, BaseFinances, BaseCapacity, PlaceholderModel, PlaceholderModel)

\* a dict without one of its keys
Without(d, key) == [k \in DOMAIN d \ {key} |-> d[k]]

CapacityDicts ==
    { [input_capacity_factor_estimate |-> cf, hydrogen_amount_kgpy |-> h,
       desired_iron_ore_mtpy |-> d] :
          cf \in {Rat(1, 2), Rat(1, 1)}, h \in SupplyQuantities, d \in DemandQuantities }

LcohConfigs ==
    { [BaseConfig EXCEPT !.costs.lcoh = 450000],
      [BaseConfig EXCEPT !.finances.lcoh = 450000],
      [BaseConfig EXCEPT !.costs.lcoh = 450000, !.finances.lcoh = 450000],
      [BaseConfig EXCEPT !.costs = Without(BaseCosts, "lcoh")],
      [BaseConfig EXCEPT !.finances = Without(BaseFinances, "lcoh")],
      [BaseConfig EXCEPT !.costs = Without(BaseCosts, "lcoh"),
                         !.finances = Without(BaseFinances, "lcoh")] }

FinanceDicts ==
    { [BaseFinances EXCEPT !.grid_prices = g, !.gen_inflation = i, !.financial_assumptions = fa] :
          g \in {GridPrices, <<>>, << <<"2031", 5100000>>, <<"2030", 5000000>> >>},
          i \in {0, 2500},
          fa \in {<<>>, << <<"total income tax rate", 25740>>, <<"sales tax", 1000>> >>} }

\* a finances dict that brings a 'feedstocks' entry of its own
FinancesWithFeedstocks ==
    [ lcoh |-> 317000, plant_life |-> 30, grid_prices |-> GridPrices,
      gen_inflation |-> 0, financial_assumptions |-> <<>>,
      feedstocks |-> [natural_gas_prices |-> NaturalGasPrices,
                      hydrogen_consumption |-> 5000] ]

RunConfigs ==
    {[BaseConfig EXCEPT !.capacity = c] : c \in CapacityDicts}
    \cup LcohConfigs
    \cup {[BaseConfig EXCEPT !.performance_model = pm, !.cost_model = cm] :
              pm \in ModelDescriptors, cm \in ModelDescriptors}
    \cup {[BaseConfig EXCEPT !.costs.operational_year = 2029]}
    \cup {[BaseConfig EXCEPT !.finances = f] : f \in FinanceDicts}
    \cup {[BaseConfig EXCEPT !.finances = FinancesWithFeedstocks]}

RunArgs ==
    { [BaseRunArgs EXCEPT !.save_plots = sv, !.show_plots = sh] : sv \in BOOLEAN, sh \in BOOLEAN }

\* what the external solver can do with one solve
SolverOutcomes ==
    { [err |-> "SolverError: no convergence", answers |-> NoObject],
      [err |-> "", answers |-> [sol |-> [price |-> 1443, irr |-> 8],
                                summary |-> "summary-a", price_breakdown |-> "breakdown-a"]],
      [err |-> "", answers |-> [sol |-> [price |-> 912, irr |-> 10],
                                summary |-> "summary-b", price_breakdown |-> "breakdown-b"]] }

\* the runner's local objects before its first statement
NoLocals ==
    /\ iron_ore_config = NoObject
    /\ shared = {}
    /\ feedstocks = NoObject
    /\ capacity_config = NoObject
    /\ iron_ore_capacity = NoObject
    /\ iron_ore_cost_config = NoObject
    /\ iron_ore_costs = NoObject
    /\ iron_ore_finance_config = NoObject
    /\ pf = NoObject
    /\ iron_ore_finance = NoObject

Init ==
    /\ pc = "rf_idle"
    /\ error = ""
    /\ calls = <<>>
    /\ args = NoObject
    /\ inv_config = NoObject
    /\ inv_capacity = NoObject
    /\ alt_costs = NoObject
    /\ model_outputs = NoObject
    /\ alt_pf = NoObject
    /\ greenheart_config \in RunConfigs
    /\ snapshot = greenheart_config
    /\ run_args \in (IF greenheart_config = BaseConfig THEN RunArgs ELSE {BaseRunArgs})
    /\ NoLocals
    /\ result = NoObject
    /\ runs = 0
    /\ files = {}
    /\ collaborators = NoObject
    /\ iron_win = NoObject
    /\ ToolsIdle

frame == <<args, inv_config, inv_capacity, alt_costs, alt_pf, snapshot, run_args, runs,
           collaborators, iron_win, toolVars>>

\* line 1021
RfCopy ==
    /\ pc = "rf_idle"
    /\ iron_ore_config' = deepcopy(greenheart_config).value
    /\ shared' = deepcopy(greenheart_config).shared
    /\ pc' = "rf_copied"
    /\ UNCHANGED <<error, calls, greenheart_config, feedstocks, capacity_config,
                   iron_ore_capacity, iron_ore_cost_config, iron_ore_costs,
                   iron_ore_finance_config, pf, iron_ore_finance, result, files, model_outputs, frame>>

\* lines 1023-1028
RfGate ==
    /\ pc = "rf_copied"
    /\ error' = LcohGate(iron_ore_config)
    /\ pc' = NextPc(LcohGate(iron_ore_config), "rf_checked")
    /\ UNCHANGED <<calls, greenheart_config, iron_ore_config, shared, feedstocks,
                   capacity_config, iron_ore_capacity, iron_ore_cost_config, iron_ore_costs,
                   iron_ore_finance_config, pf, iron_ore_finance, result, files, model_outputs, frame>>

\* lines 1030-1039
RfCapacityConfig ==
    /\ pc = "rf_checked"
    /\ LET f == Feedstocks(iron_ore_config.costs.feedstocks)
           k == CallKwargs([feedstocks |-> f], iron_ore_config.capacity)
           c == IF k.err # "" THEN [err |-> k.err, obj |-> NoObject]
                ELSE IronOreCapacityModelConfig(k.kw)
       IN  /\ feedstocks' = f
           /\ capacity_config' = c.obj
           /\ error' = c.err
           /\ pc' = NextPc(c.err, "rf_capacity_config")
    /\ UNCHANGED <<calls, greenheart_config, iron_ore_config, shared,
                   iron_ore_capacity, iron_ore_cost_config, iron_ore_costs,
                   iron_ore_finance_config, pf, iron_ore_finance, result, files, model_outputs, frame>>

\* line 1040
RfSetPerformanceModel ==
    /\ pc = "rf_capacity_config"
    /\ capacity_config' =
           [capacity_config EXCEPT !.performance_model = iron_ore_config.performance_model]
    /\ pc' = "rf_capacity_ready"
    /\ UNCHANGED <<error, calls, greenheart_config, iron_ore_config, shared, feedstocks,
                   iron_ore_capacity, iron_ore_cost_config, iron_ore_costs,
                   iron_ore_finance_config, pf, iron_ore_finance, result, files, model_outputs, frame>>

\* line 1041; the descriptor dict the stage writes to is iron_ore_config's
RfSize ==
    /\ pc = "rf_capacity_ready"
    /\ calls' = Append(calls, "size")
    /\ \E ext \in ExtSizeOutcomes :
         LET r == run_size_iron_ore_plant_capacity(capacity_config, ext)
         IN  /\ iron_ore_capacity' = r.out
             /\ capacity_config' =
                    [capacity_config EXCEPT !.performance_model = r.performance_model]
             /\ iron_ore_config' =
                    [iron_ore_config EXCEPT !.performance_model = r.performance_model]
             /\ greenheart_config' =
                    IF "performance_model" \in shared
                    THEN [greenheart_config EXCEPT !.performance_model = r.performance_model]
                    ELSE greenheart_config
             /\ error' = r.err
             /\ pc' = NextPc(r.err, "rf_sized")
    /\ UNCHANGED <<shared, feedstocks, iron_ore_cost_config, iron_ore_costs,
                   iron_ore_finance_config, pf, iron_ore_finance, result, files, model_outputs, frame>>

\* lines 1044-1048
RfCostConfig ==
    /\ pc = "rf_sized"
    /\ LET costs_dict == SetItem(iron_ore_config.costs, "feedstocks", feedstocks)
           k == CallKwargs(
                    [plant_capacity_mtpy |-> iron_ore_capacity.iron_ore_plant_capacity_mtpy],
                    costs_dict)
           c == IF k.err # "" THEN [err |-> k.err, obj |-> NoObject]
                ELSE IronOreCostModelConfig(k.kw)
       IN  /\ iron_ore_config' = [iron_ore_config EXCEPT !.costs = costs_dict]
           /\ greenheart_config' =
                  IF "costs" \in shared
                  THEN [greenheart_config EXCEPT !.costs = costs_dict]
                  ELSE greenheart_config
           /\ iron_ore_cost_config' = c.obj
           /\ error' = c.err
           /\ pc' = NextPc(c.err, "rf_cost_config")
    /\ UNCHANGED <<calls, shared, feedstocks, capacity_config, iron_ore_capacity,
                   iron_ore_costs, iron_ore_finance_config, pf, iron_ore_finance,
                   result, files, model_outputs, frame>>

\* variant: the config's capacity overwritten with the hydrogen amount
RfSetCostModel_OtherCapacity ==
    /\ pc = "rf_cost_config"
    /\ iron_ore_cost_config' =
           [iron_ore_cost_config EXCEPT
               !.plant_capacity_mtpy = iron_ore_capacity.hydrogen_amount_kgpy,
               !.cost_model = iron_ore_config.cost_model]
    /\ pc' = "rf_cost_ready"
    /\ UNCHANGED <<error, calls, greenheart_config, iron_ore_config, shared, feedstocks,
                   capacity_config, iron_ore_capacity, iron_ore_costs,
                   iron_ore_finance_config, pf, iron_ore_finance, result, files, model_outputs, frame>>

\* lines 1049-1050
RfSetCostModel ==
    /\ pc = "rf_cost_config"
    /\ iron_ore_cost_config' =
           [iron_ore_cost_config EXCEPT
               !.plant_capacity_mtpy = iron_ore_capacity.iron_ore_plant_capacity_mtpy,
               !.cost_model = iron_ore_config.cost_model]
    /\ pc' = "rf_cost_ready"
    /\ UNCHANGED <<error, calls, greenheart_config, iron_ore_config, shared, feedstocks,
                   capacity_config, iron_ore_capacity, iron_ore_costs,
                   iron_ore_finance_config, pf, iron_ore_finance, result, files, model_outputs, frame>>

\* line 1051; the descriptor dict the stage writes to is iron_ore_config's
RfCost ==
    /\ pc = "rf_cost_ready"
    /\ calls' = Append(calls, "cost")
    /\ \E ext \in ExtCostOutcomes :
         LET r == run_iron_ore_cost_model(iron_ore_cost_config, ext)
         IN  /\ iron_ore_costs' = r.out
             /\ model_outputs' = r.model_outputs
             /\ iron_ore_cost_config' = [iron_ore_cost_config EXCEPT !.cost_model = r.cost_model]
             /\ iron_ore_config' = [iron_ore_config EXCEPT !.cost_model = r.cost_model]
             /\ greenheart_config' =
                    IF "cost_model" \in shared
                    THEN [greenheart_config EXCEPT !.cost_model = r.cost_model]
                    ELSE greenheart_config
             /\ error' = r.err
             /\ pc' = NextPc(r.err, "rf_costed")
    /\ UNCHANGED <<shared, feedstocks, capacity_config, iron_ore_capacity,
                   iron_ore_finance_config, pf, iron_ore_finance, result, files, frame>>

\* lines 1054-1070
RfFinanceConfig ==
    /\ pc = "rf_costed"
    /\ LET finances == SetItem(iron_ore_config.finances, "feedstocks", feedstocks)
           k == FinanceKwargs(iron_ore_capacity, capacity_config, iron_ore_costs,
                              run_args, finances)
           c == IF k.err # "" THEN [err |-> k.err, obj |-> NoObject]
                ELSE IronOreFinanceModelConfig(k.kw)
       IN  /\ iron_ore_config' = [iron_ore_config EXCEPT !.finances = finances]
           /\ greenheart_config' =
                  IF "finances" \in shared
                  THEN [greenheart_config EXCEPT !.finances = finances]
                  ELSE greenheart_config
           /\ iron_ore_finance_config' = c.obj
           /\ error' = c.err
           /\ pc' = NextPc(c.err, "rf_finance_config")
    /\ UNCHANGED <<calls, shared, feedstocks, capacity_config, iron_ore_capacity,
                   iron_ore_cost_config, iron_ore_costs, pf, iron_ore_finance,
                   result, files, model_outputs, frame>>

\* line 1071, entering run_iron_ore_finance_model: lines 735-961
FinAssemble ==
    /\ pc = "rf_finance_config"
    /\ calls' = Append(calls, "finance")
    /\ LET r == AssembleProFAST(iron_ore_finance_config)
       IN  /\ pf' = r.pf
           /\ error' = r.err
           /\ pc' = NextPc(r.err, "rf_assembled")
    /\ UNCHANGED <<greenheart_config, iron_ore_config, shared, feedstocks, capacity_config,
                   iron_ore_capacity, iron_ore_cost_config, iron_ore_costs,
                   iron_ore_finance_config, iron_ore_finance, result, files, model_outputs, frame>>

\* lines 965-967
FinSolve ==
    /\ pc = "rf_assembled"
    /\ \E outcome \in SolverOutcomes :
         LET r == solve_price(pf, outcome)
         IN  /\ pf' = r.pf
             /\ error' = r.err
             /\ pc' = NextPc(r.err, "rf_solved")
    /\ UNCHANGED <<calls, greenheart_config, iron_ore_config, shared, feedstocks,
                   capacity_config, iron_ore_capacity, iron_ore_cost_config, iron_ore_costs,
                   iron_ore_finance_config, iron_ore_finance, result, files, model_outputs, frame>>

\* lines 969-1003 and the assignment of line 1071
FinReturn ==
    /\ pc = "rf_solved"
    /\ files' = files \cup Artifacts(iron_ore_finance_config)
    /\ iron_ore_finance' =
           IronOreFinanceModelOutputs(pf.answers.sol, pf.answers.summary,
                                      pf.answers.price_breakdown)
    /\ pf' = Plots(pf, iron_ore_finance_config)
    /\ pc' = "rf_finance_done"
    /\ UNCHANGED <<error, calls, greenheart_config, iron_ore_config, shared, feedstocks,
                   capacity_config, iron_ore_capacity, iron_ore_cost_config, iron_ore_costs,
                   iron_ore_finance_config, result, model_outputs, frame>>

\* lines 1073-1077
RfReturn ==
    /\ pc = "rf_finance_done"
    /\ result' = <<iron_ore_capacity, iron_ore_costs, iron_ore_finance>>
    /\ pc' = "rf_returned"
    /\ UNCHANGED <<error, calls, greenheart_config, iron_ore_config, shared, feedstocks,
                   capacity_config, iron_ore_capacity, iron_ore_cost_config, iron_ore_costs,
                   iron_ore_finance_config, pf, iron_ore_finance, files, model_outputs, frame>>

\* the caller calls the runner again with the same greenheart_config
RfAgain ==
    /\ pc \in {"rf_returned", "rf_raised"}
    /\ runs + 1 < MaxRuns
    /\ runs' = runs + 1
    /\ pc' = "rf_idle"
    /\ error' = ""
    /\ calls' = <<>>
    /\ result' = NoObject
    /\ iron_ore_config' = NoObject
    /\ shared' = {}
    /\ feedstocks' = NoObject
    /\ capacity_config' = NoObject
    /\ iron_ore_capacity' = NoObject
    /\ iron_ore_cost_config' = NoObject
    /\ iron_ore_costs' = NoObject
    /\ model_outputs' = NoObject
    /\ iron_ore_finance_config' = NoObject
    /\ pf' = NoObject
    /\ iron_ore_finance' = NoObject
    /\ UNCHANGED <<greenheart_config, files, args, inv_config, inv_capacity, alt_costs, alt_pf,
                   snapshot, run_args, collaborators, iron_win, toolVars>>

Next ==
    \/ RfCopy \/ RfGate \/ RfCapacityConfig \/ RfSetPerformanceModel \/ RfSize
    \/ RfCostConfig \/ RfSetCostModel \/ RfCost \/ RfFinanceConfig
    \/ FinAssemble \/ FinSolve \/ FinReturn \/ RfReturn \/ RfAgain

Spec == Init /\ [][Next]_vars

-----------------------------------------------------------------------------
(* Claims about the full-model runner *)

LcohDiffers ==
    /\ "lcoh" \in DOMAIN greenheart_config.costs
    /\ "lcoh" \in DOMAIN greenheart_config.finances
    /\ greenheart_config.costs.lcoh # greenheart_config.finances.lcoh

NoStageOutput ==
    /\ iron_ore_capacity = NoObject
    /\ iron_ore_costs = NoObject
    /\ pf = NoObject
    /\ iron_ore_finance = NoObject
    /\ result = NoObject

\* C3 (consistency gate): when the configuration gives costs.lcoh and
\* finances.lcoh different values, the runner never gets past its check: it
\* raises the ValueError of the check, no stage (sizing, cost, finance) has
\* been called, no stage output exists and nothing is returned.
C3_ConsistencyGate ==
    LcohDiffers =>
        /\ pc \in {"rf_idle", "rf_copied", "rf_raised"}
        /\ calls = <<>>
        /\ NoStageOutput
        /\ pc = "rf_raised" =>
               error = "ValueError: iron ore cost LCOH and iron ore finance LCOH are not equal"

C3_Witness ==
    /\ LcohDiffers
    /\ pc = "rf_raised"
    /\ error = "ValueError: iron ore cost LCOH and iron ore finance LCOH are not equal"

\* C4 (deep-copy isolation): in every state of every run, the first and the
\* later ones, successful or failed at any stage, with built-in or external
\* model branches, the caller's configuration equals the snapshot taken
\* before the first run, nested dicts included.
C4_DeepCopyIsolation == greenheart_config = snapshot

\* a later run has returned, its working copy carries the Feedstocks object
\* the runner stored in costs and finances
C4_Witness ==
    /\ runs >= 1
    /\ pc = "rf_returned"
    /\ iron_ore_config.costs.feedstocks = feedstocks
    /\ iron_ore_config.finances.feedstocks = feedstocks
    /\ iron_ore_config # greenheart_config
    /\ greenheart_config = snapshot

\* C7 (stage sequencing): when the runner has returned, the stages were
\* called once each in the order size, cost, finance; the cost config's and
\* the finance config's plant capacity are the capacity sizing returned; the
\* finance config's capacity factor is the configured
\* input_capacity_factor_estimate; the finance config's costs is the cost
\* stage's output; the returned value is the triple of the three outputs.
C7_StageSequencing ==
    pc = "rf_returned" =>
        /\ calls = <<"size", "cost", "finance">>
        /\ iron_ore_capacity # NoObject
        /\ iron_ore_costs # NoObject
        /\ iron_ore_finance # NoObject
        /\ iron_ore_cost_config.plant_capacity_mtpy =
               iron_ore_capacity.iron_ore_plant_capacity_mtpy
        /\ iron_ore_finance_config.plant_capacity_mtpy =
               iron_ore_capacity.iron_ore_plant_capacity_mtpy
        /\ iron_ore_finance_config.plant_capacity_factor =
               greenheart_config.capacity.input_capacity_factor_estimate
        /\ iron_ore_finance_config.costs = iron_ore_costs
        /\ result = <<iron_ore_capacity, iron_ore_costs, iron_ore_finance>>

\* a returned run whose production differs from its capacity
C7_Witness ==
    /\ pc = "rf_returned"
    /\ calls = <<"size", "cost", "finance">>
    /\ iron_ore_finance_config.iron_ore_production_mtpy #
           iron_ore_finance_config.plant_capacity_mtpy
    /\ result = <<iron_ore_capacity, iron_ore_costs, iron_ore_finance>>

\* C8 (no partial result): once anything in a run has raised, the run is
\* over: the runner is at its raise, it has returned nothing, and the
\* stages after the failed one were not called -- without a sizing output
\* the cost and finance stages were not called, without a cost output the
\* finance stage was not called and no solve was made.
C8_NoPartialResult ==
    /\ error # "" => pc = "rf_raised" /\ result = NoObject
    /\ pc = "rf_raised" => error # "" /\ result = NoObject
    /\ iron_ore_capacity = NoObject =>
           /\ calls \in {<<>>, <<"size">>}
           /\ iron_ore_costs = NoObject
           /\ pf = NoObject
           /\ iron_ore_finance = NoObject
    /\ iron_ore_costs = NoObject =>
           /\ calls \in {<<>>, <<"size">>, <<"size", "cost">>}
           /\ pf = NoObject
           /\ iron_ore_finance = NoObject

\* the cost stage has failed after a successful sizing
C8_Witness ==
    /\ pc = "rf_raised"
    /\ calls = <<"size", "cost">>
    /\ iron_ore_capacity # NoObject
    /\ iron_ore_costs = NoObject
    /\ pf = NoObject
    /\ result = NoObject

\* C9 (no retry): the finance stage asks the solver for at most one solve
\* per run; when that solve fails, the solver's error is the error the
\* runner's caller gets, and neither a finance output nor a result exists.
C9_NoRetry ==
    pf # NoObject =>
        /\ pf.solves <= 1
        /\ (pf.solves = 1 /\ pf.answers = NoObject) =>
               /\ error = "SolverError: no convergence"
               /\ pc = "rf_raised"
               /\ iron_ore_finance = NoObject
               /\ result = NoObject

C9_Witness ==
    /\ pf # NoObject
    /\ pf.solves = 1
    /\ error = "SolverError: no convergence"
    /\ pc = "rf_raised"

\* C10 (verbatim results): the finance output's sol, summary and
\* price_breakdown are the values the solver returned, with plots made or
\* not, and the breakeven price is sol's entry under the key "price".
C10_VerbatimResults ==
    iron_ore_finance # NoObject =>
        /\ iron_ore_finance.sol = pf.answers.sol
        /\ iron_ore_finance.summary = pf.answers.summary
        /\ iron_ore_finance.price_breakdown = pf.answers.price_breakdown
        /\ "price" \in DOMAIN iron_ore_finance.sol
        /\ iron_ore_finance.sol.price = pf.answers.sol.price

\* a run with plots made has returned the solver's answers
C10_Witness ==
    /\ pc = "rf_returned"
    /\ pf.plots # <<>>
    /\ files # {}
    /\ result[3].sol = [price |-> 912, irr |-> 10]
    /\ result[3].summary = "summary-b"

LcohOmittedInBoth ==
    /\ "lcoh" \notin DOMAIN greenheart_config.costs
    /\ "lcoh" \notin DOMAIN greenheart_config.finances

\* C11 (lcoh in both places or in neither): when lcoh is omitted from both
\* the costs and the finances configuration, the runner's consistency check
\* raises nothing, so that no error exists while no stage has been called
\* yet, and the run goes on to capacity sizing.
C11_OmittedInBothPasses ==
    (LcohOmittedInBoth /\ calls = <<>>) => (error = "" /\ pc # "rf_raised")

-----------------------------------------------------------------------------
(* Claims about the effects of capacity sizing on its config *)

\* the config as construction left it
ConstructedCapacityConfig == WithDefaults(args, CapacityDefaults)

SizingDone == pc \in {"sz_sized", "sz_failed"}

\* C12 as stated: after run_size_iron_ore_plant_capacity, in either branch,
\* the config is what it was before the call, the model_fp, inputs_fp and
\* coeffs_fp entries of performance_model included.
C12_SizingLeavesConfig ==
    SizingDone => capacity_config = ConstructedCapacityConfig

\* the path p of the descriptor as the external branch leaves it, given the
\* path before the call and the registry key it is looked up under
PathAfter(before, name, key) ==
    IF before # "" THEN before
    ELSE IF name \in DOMAIN model_locs.performance
    THEN model_locs.performance[name][key]
    ELSE ""

\* C12 amended: after run_size_iron_ore_plant_capacity every field of the
\* config other than performance_model is what it was before the call; in
\* the built-in branch (and when no descriptor is given) performance_model
\* is unchanged too; in the external branch the descriptor keeps its name
\* and its non-blank paths, and each blank path has been overwritten with
\* the registry entry of the model name, when the registry has one.
C12_SizingWritesOnlyBlankPaths ==
    SizingDone =>
        LET before == ConstructedCapacityConfig
            b == before.performance_model
            a == capacity_config.performance_model
        IN  /\ \A f \in DOMAIN before \ {"performance_model"} : capacity_config[f] = before[f]
            /\ DOMAIN capacity_config = DOMAIN before
            /\ (b = None \/ b = PlaceholderModel) => a = b
            /\ (b # None /\ b # PlaceholderModel) =>
                   /\ a.name = b.name
                   /\ a.model_fp  = PathAfter(b.model_fp, b.name, "model")
                   /\ a.inputs_fp = PathAfter(b.inputs_fp, b.name, "inputs")
                   /\ a.coeffs_fp = PathAfter(b.coeffs_fp, b.name, "coeffs")

\* an external-branch sizing that kept a given path and filled in a blank one
C12_Witness ==
    /\ pc = "sz_sized"
    /\ args.performance_model.name = "registered"
    /\ args.performance_model.model_fp = "cfg/model"
    /\ capacity_config.performance_model.model_fp = "cfg/model"
    /\ args.performance_model.inputs_fp = ""
    /\ capacity_config.performance_model.inputs_fp = "reg/perf_inputs"

-----------------------------------------------------------------------------
(* Claims about the config objects of a run *)

\* a step within one run that leaves the config object c in existence
Kept(c, d) == c # NoObject /\ d # NoObject

\* C13 as stated: once a capacity, cost or finance config object has been
\* constructed, no step of the run assigns any of its fields.
C13_ConfigsReadOnly ==
    [][ /\ Kept(capacity_config, capacity_config') => capacity_config' = capacity_config
        /\ Kept(iron_ore_cost_config, iron_ore_cost_config') =>
               iron_ore_cost_config' = iron_ore_cost_config
        /\ Kept(iron_ore_finance_config, iron_ore_finance_config') =>
               iron_ore_finance_config' = iron_ore_finance_config ]_vars

\* C13 amended: after construction the only fields of a config object that
\* change are performance_model of the capacity config and cost_model of
\* the cost config (the runner assigns both after construction, and the
\* external branches write resolved paths into them); plant_capacity_mtpy
\* of the cost config is assigned again with the value it was constructed
\* with; the finance config is never assigned.
C13_OnlyModelFieldsAssigned ==
    [][ /\ Kept(capacity_config, capacity_config') =>
               /\ DOMAIN capacity_config' = DOMAIN capacity_config
               /\ \A f \in DOMAIN capacity_config \ {"performance_model"} :
                      capacity_config'[f] = capacity_config[f]
        /\ Kept(iron_ore_cost_config, iron_ore_cost_config') =>
               /\ DOMAIN iron_ore_cost_config' = DOMAIN iron_ore_cost_config
               /\ \A f \in DOMAIN iron_ore_cost_config \ {"cost_model"} :
                      iron_ore_cost_config'[f] = iron_ore_cost_config[f]
        /\ Kept(iron_ore_finance_config, iron_ore_finance_config') =>
               iron_ore_finance_config' = iron_ore_finance_config ]_vars

\* both configs were constructed with the default descriptor (None) and
\* carry the configuration's descriptors when the cost stage is called
C13_Witness ==
    /\ pc = "rf_cost_ready"
    /\ "performance_model" \notin DOMAIN greenheart_config.capacity
    /\ "cost_model" \notin DOMAIN greenheart_config.costs
    /\ capacity_config.performance_model = greenheart_config.performance_model
    /\ iron_ore_cost_config.cost_model = greenheart_config.cost_model
    /\ iron_ore_cost_config.plant_capacity_mtpy = iron_ore_capacity.iron_ore_plant_capacity_mtpy

-----------------------------------------------------------------------------
(* Claims about the choice of branch *)

\* C14 (default model selection): sizing a capacity config constructed
\* without a performance_model (the field at its default) takes the built-in
\* branch: its error and its outputs are those of the built-in formulas.
C14_DefaultTakesBuiltIn ==
    (SizingDone /\ ConstructedCapacityConfig.performance_model = None) =>
        /\ error = SizePlaceholder(capacity_config).err
        /\ iron_ore_capacity = SizePlaceholder(capacity_config).out

-----------------------------------------------------------------------------
(* Claims about the external cost model's return value *)

\* the cost stage has just run and its external model returned an n-tuple
ExternalReturned(n) ==
    /\ pc \in {"cm_done", "cm_failed"}
    /\ model_outputs # NoObject
    /\ Len(model_outputs) = n

\* C15 as stated: when the external cost model returns an ordered
\* 23-element tuple, the cost stage unpacks it without error and every field
\* of the output is populated.
C15_Unpacks23Tuple ==
    ExternalReturned(23) =>
        /\ error = ""
        /\ pc = "cm_done"
        /\ DOMAIN iron_ore_costs = CostFields

\* C15 amended: the stage unpacks a 24-element tuple, in the order of its
\* unpacking statement: positions 1-9 the capital items, 10
\* total_plant_cost, 11-14 the three labor costs and
\* property_tax_insurance, 15 total_fixed_operating_cost, 16-21 the owner's
\* sub-costs up to spare_parts_cost, 22 land_cost, 23 misc_owners_costs, 24
\* installation_cost; every one of the 24 output fields is populated.  A
\* tuple of any other length raises ValueError and gives no output.
C15_Unpacks24Tuple ==
    /\ ExternalReturned(24) =>
           /\ error = ""
           /\ pc = "cm_done"
           /\ DOMAIN iron_ore_costs = CostFields
           /\ Cardinality(CostFields) = 24
           /\ iron_ore_costs.capex_eaf_casting = model_outputs[1]
           /\ iron_ore_costs.capex_shaft_furnace = model_outputs[2]
           /\ iron_ore_costs.capex_oxygen_supply = model_outputs[3]
           /\ iron_ore_costs.capex_h2_preheating = model_outputs[4]
           /\ iron_ore_costs.capex_cooling_tower = model_outputs[5]
           /\ iron_ore_costs.capex_piping = model_outputs[6]
           /\ iron_ore_costs.capex_elec_instr = model_outputs[7]
           /\ iron_ore_costs.capex_buildings_storage_water = model_outputs[8]
           /\ iron_ore_costs.capex_misc = model_outputs[9]
           /\ iron_ore_costs.total_plant_cost = model_outputs[10]
           /\ iron_ore_costs.labor_cost_annual_operation = model_outputs[11]
           /\ iron_ore_costs.labor_cost_maintenance = model_outputs[12]
           /\ iron_ore_costs.labor_cost_admin_support = model_outputs[13]
           /\ iron_ore_costs.property_tax_insurance = model_outputs[14]
           /\ iron_ore_costs.total_fixed_operating_cost = model_outputs[15]
           /\ iron_ore_costs.labor_cost_fivemonth = model_outputs[16]
           /\ iron_ore_costs.maintenance_materials_onemonth = model_outputs[17]
           /\ iron_ore_costs.non_fuel_consumables_onemonth = model_outputs[18]
           /\ iron_ore_costs.waste_disposal_onemonth = model_outputs[19]
           /\ iron_ore_costs.monthly_energy_cost = model_outputs[20]
           /\ iron_ore_costs.spare_parts_cost = model_outputs[21]
           /\ iron_ore_costs.land_cost = model_outputs[22]
           /\ iron_ore_costs.misc_owners_costs = model_outputs[23]
           /\ iron_ore_costs.installation_cost = model_outputs[24]
    /\ \A n \in 1..23 :
           ExternalReturned(n) =>
               /\ error = "ValueError"
               /\ pc = "cm_failed"
               /\ iron_ore_costs = NoObject

\* a 24-tuple of distinct values was unpacked
C15_Witness ==
    /\ ExternalReturned(24)
    /\ model_outputs[22] = 22000
    /\ model_outputs[10] = 10000
    /\ iron_ore_costs.land_cost = 22000
    /\ iron_ore_costs.total_plant_cost = 10000

-----------------------------------------------------------------------------
(* Claims about the resolution of external model paths *)

PathKeys == { <<"model_fp", "model">>, <<"inputs_fp", "inputs">>, <<"coeffs_fp", "coeffs">> }

\* descriptor b as given in the configuration, descriptor a as the stage of
\* the given kind left it, failed: the stage raised, reached: the external
\* model was imported
Resolved(kind, b, a, failed, reached) ==
    b.name # "placeholder" =>
        LET known == b.name \in DOMAIN model_locs[kind]
            blank == \E k \in PathKeys : b[k[1]] = ""
        IN  /\ \A k \in PathKeys :
                   /\ b[k[1]] # "" => a[k[1]] = b[k[1]]
                   /\ (b[k[1]] = "" /\ known) => a[k[1]] = model_locs[kind][b.name][k[2]]
            /\ (blank /\ ~known) => (failed /\ error = "KeyError" /\ ~reached)
            /\ ~(blank /\ ~known) => (reached \/ (failed /\ error = "ImportError"))

SizeStageOver ==
    pc = "rf_sized" \/ (pc = "rf_raised" /\ calls = <<"size">>)

CostStageOver ==
    pc = "rf_costed" \/ (pc = "rf_raised" /\ calls = <<"size", "cost">>)

\* C16 (external model path resolution): after the sizing stage and after
\* the cost stage of a run with a non-placeholder model name, each path that
\* the configuration gave non-blank is as given, each blank path is the
\* registry entry of the model name, and when a path is blank and the
\* registry has no entry for the name the stage has failed with KeyError
\* without importing the external model.
C16_PathResolution ==
    /\ SizeStageOver =>
           Resolved("performance", greenheart_config.performance_model,
                    capacity_config.performance_model,
                    iron_ore_capacity = NoObject, iron_ore_capacity # NoObject)
    /\ CostStageOver =>
           Resolved("cost", greenheart_config.cost_model,
                    iron_ore_cost_config.cost_model,
                    iron_ore_costs = NoObject, model_outputs # NoObject)

\* the cost stage kept the given model path, took the coefficient path from
\* the registry and imported the external model
C16_Witness ==
    /\ pc = "rf_costed"
    /\ greenheart_config.cost_model.name = "registered"
    /\ greenheart_config.cost_model.model_fp = "cfg/model"
    /\ greenheart_config.cost_model.inputs_fp = ""
    /\ iron_ore_cost_config.cost_model.model_fp = "cfg/model"
    /\ iron_ore_cost_config.cost_model.inputs_fp = "reg/cost_inputs"
    /\ model_outputs # NoObject

-----------------------------------------------------------------------------
(* SpecFinance: run_iron_ore_finance_model on a finance config that carries a
   base IronOreCosts object; the same config carrying an
   IronOreCostModelOutputs is then assembled for comparison. *)

IronOreCostsFields ==
    { "capex_eaf_casting", "capex_shaft_furnace", "capex_oxygen_supply",
      "capex_h2_preheating", "capex_cooling_tower", "capex_piping",
      "capex_elec_instr", "capex_buildings_storage_water", "capex_misc",
      "labor_cost_annual_operation", "labor_cost_maintenance",
      "labor_cost_admin_support", "property_tax_insurance", "land_cost",
      "installation_cost" }

\* IronOreCosts(**kw)
IronOreCosts(kw) ==
    IF DOMAIN kw # IronOreCostsFields
    THEN [err |-> "TypeError", obj |-> NoObject]
    ELSE [err |-> "", obj |-> kw]

CostsObjects ==
    { IronOreCosts(
          [ capex_eaf_casting |-> 352191 + k, capex_shaft_furnace |-> 489681,
            capex_oxygen_supply |-> 67371, capex_h2_preheating |-> 45691,
            capex_cooling_tower |-> 2513 + k, capex_piping |-> 11815,
            capex_elec_instr |-> 7877, capex_buildings_storage_water |-> 1181,
            capex_misc |-> k, labor_cost_annual_operation |-> 69375,
            labor_cost_maintenance |-> 8443, labor_cost_admin_support |-> 19454,
            property_tax_insurance |-> 19566 + k, land_cost |-> 775,
            installation_cost |-> 179525 ]).obj : k \in {0, 5000} }

\* the fields an IronOreCostModelOutputs has on top of IronOreCosts' own
OutputsExtras ==
    { [f \in CostFields \ IronOreCostsFields |-> v] : v \in {0, 777777} }

FinanceAssumptions ==
    { <<>>,
      << <<"analysis start year", 1999>>, <<"installation months", 1>>,
         <<"total income tax rate", 25740>> >> }

FinanceConfigs ==
    { IronOreFinanceModelConfig(
          [ plant_life |-> life, plant_capacity_mtpy |-> RInt(1000),
            plant_capacity_factor |-> Rat(1, 2), iron_ore_production_mtpy |-> RInt(500),
            lcoh |-> 317000, grid_prices |-> g,
            feedstocks |-> Feedstocks([natural_gas_prices |-> NaturalGasPrices]),
            costs |-> c, o2_heat_integration |-> o2, financial_assumptions |-> fa,
            install_years |-> y, gen_inflation |-> i, save_plots |-> sv,
            show_plots |-> sh ]).obj :
        life \in {25, 30},
        g \in {GridPrices, <<>>, << <<"2031", 5100000>>, <<"2030", 5000000>> >>},
        c \in CostsObjects, fa \in FinanceAssumptions, y \in {0, 1, 3},
        i \in {0, 2500}, sv \in BOOLEAN, sh \in BOOLEAN, o2 \in BOOLEAN }

InitFinance ==
    /\ pc = "rf_finance_config"
    /\ error = ""
    /\ calls = <<>>
    /\ args = NoObject
    /\ capacity_config = NoObject
    /\ iron_ore_capacity = NoObject
    /\ inv_config = NoObject
    /\ inv_capacity = NoObject
    /\ CostIdle
    /\ greenheart_config = NoObject
    /\ snapshot = NoObject
    /\ iron_ore_config = NoObject
    /\ shared = {}
    /\ run_args = NoObject
    /\ feedstocks = NoObject
    /\ iron_ore_finance_config \in FinanceConfigs
    /\ pf = NoObject
    /\ alt_pf = NoObject
    /\ iron_ore_finance = NoObject
    /\ result = NoObject
    /\ runs = 0
    /\ files = {}
    /\ collaborators = NoObject
    /\ iron_win = NoObject
    /\ ToolsIdle

\* lines 735-961 for the same config with its costs an IronOreCostModelOutputs
\* that has the same 15 IronOreCosts fields
FinAssembleWithOutputs ==
    /\ pc = "rf_finance_done"
    /\ \E extra \in OutputsExtras :
         LET rich == [f \in CostFields |->
                         IF f \in IronOreCostsFields
                         THEN iron_ore_finance_config.costs[f] ELSE extra[f]]
         IN  alt_pf' = AssembleProFAST([iron_ore_finance_config EXCEPT !.costs = rich]).pf
    /\ pc' = "fn_both"
    /\ UNCHANGED <<error, calls, sizeVars, costVars, greenheart_config, snapshot,
                   iron_ore_config, shared, run_args, feedstocks, iron_ore_finance_config,
                   pf, iron_ore_finance, result, runs, files, collaborators, iron_win,
                   toolVars>>

NextFinance == FinAssemble \/ FinSolve \/ FinReturn \/ FinAssembleWithOutputs

SpecFinance == InitFinance /\ [][NextFinance]_vars

-----------------------------------------------------------------------------
(* Claims about the finance stage *)

\* C17 (minimal Costs contract): a finance config carrying a base
\* IronOreCosts object and the same config carrying an
\* IronOreCostModelOutputs with the same 15 IronOreCosts fields and
\* arbitrary totals and owner's sub-costs register the same parameters,
\* capital items, fixed costs, feedstocks and co-product with the solver.
C17_MinimalCostsContract ==
    pc = "fn_both" =>
        /\ alt_pf # NoObject
        /\ alt_pf.params = pf.params
        /\ alt_pf.capital_items = pf.capital_items
        /\ alt_pf.fixed_costs = pf.fixed_costs
        /\ alt_pf.feedstocks = pf.feedstocks
        /\ alt_pf.coproducts = pf.coproducts

C17_Witness ==
    /\ pc = "fn_both"
    /\ DOMAIN iron_ore_finance_config.costs = IronOreCostsFields
    /\ Len(pf.capital_items) = 9
    /\ Len(pf.fixed_costs) = 4
    /\ pf.params["non depr assets"] = 775
    /\ alt_pf.capital_items = pf.capital_items

\* C18 (one Feedstocks object per run): the run's Feedstocks object is the
\* one built from costs.feedstocks of the configuration, and every config
\* object of the run -- capacity, cost, finance -- holds that object, also
\* when the finances configuration has a 'feedstocks' entry of its own.
C18_OneFeedstocks ==
    /\ feedstocks # NoObject =>
           feedstocks = Feedstocks(greenheart_config.costs.feedstocks)
    /\ capacity_config # NoObject => capacity_config.feedstocks = feedstocks
    /\ iron_ore_cost_config # NoObject => iron_ore_cost_config.feedstocks = feedstocks
    /\ iron_ore_finance_config # NoObject =>
           /\ iron_ore_finance_config.feedstocks = feedstocks
           /\ iron_ore_config.finances.feedstocks = feedstocks

\* a returned run whose finances configuration had its own 'feedstocks'
C18_Witness ==
    /\ pc = "rf_returned"
    /\ "feedstocks" \in DOMAIN greenheart_config.finances
    /\ greenheart_config.finances.feedstocks # greenheart_config.costs.feedstocks
    /\ capacity_config.feedstocks = feedstocks
    /\ iron_ore_cost_config.feedstocks = feedstocks
    /\ iron_ore_finance_config.feedstocks = feedstocks
    /\ feedstocks.hydrogen_consumption = 10000

\* the finance stage has assembled its solver object
Assembled == pf # NoObject /\ iron_ore_finance_config # NoObject

\* C19 (analysis start year): whenever the solver object is ready for the
\* solve -- the price schedule being non-empty -- its analysis start year is
\* the year of the schedule's first key minus install_years and its
\* installation duration is 12 * install_years months, whatever the
\* financial assumptions of the config say about these two parameters.
C19_AnalysisStartYear ==
    Assembled =>
        LET first == iron_ore_finance_config.grid_prices[1][1]
            year  == CASE first = "2029" -> 2029 [] first = "2030" -> 2030
                       [] first = "2031" -> 2031 [] first = "2032" -> 2032
        IN  /\ iron_ore_finance_config.grid_prices # <<>>
            /\ pf.params["analysis start year"] =
                   year - iron_ore_finance_config.install_years
            /\ pf.params["installation months"] =
                   12 * iron_ore_finance_config.install_years

\* a solve was made for a schedule whose first key is not its earliest year,
\* a one-year installation and assumptions naming both parameters
C19_Witness ==
    /\ Assembled
    /\ pf.solves = 1
    /\ iron_ore_finance_config.grid_prices[1][1] = "2031"
    /\ iron_ore_finance_config.install_years = 1
    /\ iron_ore_finance_config.financial_assumptions # <<>>
    /\ pf.params["analysis start year"] = 2030
    /\ pf.params["installation months"] = 12

LaborFixedCosts ==
    { "Annual Operating Labor Cost", "Maintenance Labor Cost",
      "Administrative & Support Labor Cost" }

\* C20 (flat property tax and insurance): the fixed costs registered with
\* the solver are the three labor costs, each with escalation equal to the
\* config's general inflation rate, and 'Property tax and insurance' with
\* escalation 0, for every general inflation rate.
C20_FlatPropertyTax ==
    Assembled =>
        /\ {pf.fixed_costs[i].name : i \in 1..Len(pf.fixed_costs)} =
               LaborFixedCosts \cup {"Property tax and insurance"}
        /\ \A i \in 1..Len(pf.fixed_costs) :
               /\ pf.fixed_costs[i].name \in LaborFixedCosts =>
                      pf.fixed_costs[i].escalation = iron_ore_finance_config.gen_inflation
               /\ pf.fixed_costs[i].name = "Property tax and insurance" =>
                      pf.fixed_costs[i].escalation = 0

\* fixed costs registered under a non-zero general inflation rate
C20_Witness ==
    /\ Assembled
    /\ iron_ore_finance_config.gen_inflation = 2500
    /\ pf.fixed_costs[1].escalation = 2500
    /\ pf.fixed_costs[4].name = "Property tax and insurance"
    /\ pf.fixed_costs[4].escalation = 0

-----------------------------------------------------------------------------
(* C21: what the solver holds when the solve is invoked *)

\* the ProFAST object has been assembled and the solve is the next step or
\* has been made
AtSolve == pf # NoObject /\ pc \in {"rf_assembled", "rf_solved", "rf_finance_done", "fn_both"}

OxygenSales(config) ==
    [ name |-> "Oxygen sales", usage |-> config.feedstocks.excess_oxygen,
      unit |-> "kg O2 per metric tonne of iron ore",
      cost |-> config.feedstocks.oxygen_market_price,
      escalation |-> config.gen_inflation ]

-----------------------------------------------------------------------------
(* C22: the artifacts of the finance stage *)

\* C22: the finance stage creates directories and writes artifacts only when
\* save_plots is true, whatever show_plots is, and only after the solve
C22_ArtifactsOnlyWithSavePlots ==
    files # {} =>
        /\ iron_ore_finance_config.save_plots
        /\ pf.solves = 1

-----------------------------------------------------------------------------
(* C23: what the built-in installation cost is made of *)

\* the 60-day supply of raw water, lime, carbon and iron ore pellets of lines
\* 532-542, from the config's own rates and unit costs
SixtyDaySupply(config) ==
    LET fs == config.feedstocks
    IN  MulDiv(MulE5(fs.raw_water_consumption, fs.raw_water_unitcost)
               + MulE5(fs.lime_consumption, fs.lime_unitcost)
               + MulE5(fs.carbon_consumption, fs.carbon_unitcost)
               + MulE5(fs.iron_ore_consumption, fs.iron_ore_pellet_unitcost),
               config.plant_capacity_mtpy[1] * 60, 365 * E5)

\* C23: in the built-in branch installation_cost is the five-month labor cost
\* plus 2% of total_plant_cost plus the 60-day consumables supply plus the
\* spare parts cost plus the miscellaneous owner's costs, and the same config
\* at another lcoh, natural gas price, electricity cost, slag disposal cost and
\* maintenance materials unit cost has the same installation_cost
C23_InstallationCost ==
    (pc = "cm_repriced" /\ BuiltInCost) =>
        /\ iron_ore_costs.installation_cost =
               iron_ore_costs.labor_cost_fivemonth
               + MulDiv(iron_ore_costs.total_plant_cost, 2, 100)
               + SixtyDaySupply(iron_ore_cost_config)
               + iron_ore_costs.spare_parts_cost
               + iron_ore_costs.misc_owners_costs
        /\ alt_costs.installation_cost = iron_ore_costs.installation_cost

C23_Witness ==
    /\ pc = "cm_repriced"
    /\ BuiltInCost
    /\ iron_ore_cost_config.plant_capacity_mtpy[1] > 0
    /\ alt_costs.monthly_energy_cost > iron_ore_costs.monthly_energy_cost
    /\ alt_costs.waste_disposal_onemonth < iron_ore_costs.waste_disposal_onemonth
    /\ alt_costs.maintenance_materials_onemonth > iron_ore_costs.maintenance_materials_onemonth
    /\ alt_costs.installation_cost = iron_ore_costs.installation_cost
    /\ iron_ore_costs.installation_cost > 0

-----------------------------------------------------------------------------
(* C24: financial_assumptions against the stage's own parameters *)

\* the names the stage sets itself (lines 748-790)
StageKeys(config) == {StageParams(config)[i][1] : i \in DOMAIN StageParams(config)}

\* C24: at the solve every parameter the stage sets itself holds the stage's
\* value, also when financial_assumptions names it, and every other entry of
\* financial_assumptions holds its own value
C24_StageParamsWin ==
    AtSolve =>
        LET config == iron_ore_finance_config
            own    == StageParams(config)
            fa     == config.financial_assumptions
        IN  /\ \A i \in DOMAIN own : pf.params[own[i][1]] = own[i][2]
            /\ \A j \in DOMAIN fa :
                   fa[j][1] \notin StageKeys(config) => pf.params[fa[j][1]] = fa[j][2]

C24_Witness ==
    /\ pc = "rf_solved"
    /\ pf.solves = 1
    /\ \E j \in DOMAIN iron_ore_finance_config.financial_assumptions :
           /\ iron_ore_finance_config.financial_assumptions[j] = <<"analysis start year", 1999>>
    /\ pf.params["analysis start year"] = 2029
    /\ pf.params["installation months"] = 12
    /\ pf.params["total income tax rate"] = 25740

-----------------------------------------------------------------------------
(* C25: sizing a config that construction accepted *)

\* C25: every capacity config that construction accepted, with the
\* placeholder performance model and a non-zero capacity factor, is sized
\* without error into outputs whose plant capacity and hydrogen amount are
\* both defined, also when the one quantity that is set is 0
C25_ValidatedConfigIsSized ==
    (/\ pc \in {"sz_sized", "sz_failed"}
     /\ capacity_config.performance_model = PlaceholderModel
     /\ ~IsZero(capacity_config.input_capacity_factor_estimate)) =>
        /\ error = ""
        /\ iron_ore_capacity # NoObject
        /\ iron_ore_capacity.iron_ore_plant_capacity_mtpy # None
        /\ iron_ore_capacity.hydrogen_amount_kgpy # None

-----------------------------------------------------------------------------
(* The iron electrowinning module (iron_win.py): its own Feedstocks, configs,
   stages and runner.  Arithmetic, attrs construction, the model registry and
   the ProFAST object are the ones above. *)

WinFeedstocksDefaults ==
    [ excess_oxygen                  |-> 39500000,
      lime_unitcost                  |-> 12210000,
      carbon_unitcost                |-> 23697000,
      electricity_cost               |-> 4892000,
      iron_ore_pellet_unitcost       |-> 20735000,
      oxygen_market_price            |-> 3000,
      raw_water_unitcost             |-> 59289,
      iron_ore_consumption           |-> 162927,
      raw_water_consumption          |-> 80367,
      lime_consumption               |-> 1812,
      carbon_consumption             |-> 5380,
      hydrogen_consumption           |-> 6596,
      natural_gas_consumption        |-> 71657,
      electricity_consumption        |-> 55020,
      slag_disposal_unitcost         |-> 3763000,
      slag_production                |-> 17433,
      maintenance_materials_unitcost |-> 772000 ]

\* iron_win.Feedstocks(**kw)
WinFeedstocks(kw) ==
    [f \in DOMAIN WinFeedstocksDefaults \cup {"natural_gas_prices"} |->
        IF f \in DOMAIN kw THEN kw[f] ELSE WinFeedstocksDefaults[f]]

WinCapacityPostInit(a) ==
    IF a.hydrogen_amount_kgpy = None /\ a.desired_iron_win_mtpy = None
    THEN "ValueError: hydrogen_amount_kgpy or desired_iron_win_mtpy is a required input"
    ELSE IF Truthy(a.hydrogen_amount_kgpy) /\ Truthy(a.desired_iron_win_mtpy)
    THEN "ValueError: can only select one input"
    ELSE ""

WinCapacityDefaults ==
    [hydrogen_amount_kgpy |-> None, desired_iron_win_mtpy |-> None, performance_model |-> None]

\* IronWinCapacityModelConfig(**kw)
IronWinCapacityModelConfig(kw) ==
    LET a == WithDefaults(kw, WinCapacityDefaults)
    IN  IF {"input_capacity_factor_estimate", "feedstocks"} \ DOMAIN kw # {}
        THEN [err |-> "TypeError", obj |-> NoObject]
        ELSE IF WinCapacityPostInit(a) # ""
        THEN [err |-> WinCapacityPostInit(a), obj |-> NoObject]
        ELSE [err |-> "", obj |-> a]

IronWinCapacityModelOutputs(cap, h2) ==
    [iron_win_plant_capacity_mtpy |-> cap, hydrogen_amount_kgpy |-> h2]

\* the built-in branch of run_size_iron_win_plant_capacity: supply block,
\* then demand block
WinSizePlaceholder(config) ==
    LET H  == config.hydrogen_amount_kgpy
        D  == config.desired_iron_win_mtpy
        h  == FromE5(config.feedstocks.hydrogen_consumption)
        cf == config.input_capacity_factor_estimate
    IN  IF Truthy(H) /\ IsZero(h) THEN [err |-> "ZeroDivisionError", out |-> NoObject]
        ELSE IF Truthy(D) /\ IsZero(cf) THEN [err |-> "ZeroDivisionError", out |-> NoObject]
        ELSE IF ~Truthy(H) /\ ~Truthy(D) THEN [err |-> "UnboundLocalError", out |-> NoObject]
        ELSE [err |-> "",
              out |-> IronWinCapacityModelOutputs(
                          IF Truthy(D) THEN RDiv(D, cf)
                          ELSE RMul(RDiv(RDiv(H, RInt(1000)), h), cf),
                          IF Truthy(D) THEN RDiv(RMul(D, RMul(RInt(1000), h)), cf)
                          ELSE H)]

run_size_iron_win_plant_capacity(config, ext) ==
    LET pm == config.performance_model
    IN  IF pm = None
        THEN [err |-> "TypeError", out |-> NoObject, performance_model |-> pm]
        ELSE IF pm.name = "placeholder"
        THEN [err |-> WinSizePlaceholder(config).err,
              out |-> WinSizePlaceholder(config).out,
              performance_model |-> pm]
        ELSE LET r == ResolvePaths("performance", pm)
             IN  IF r.err # ""
                 THEN [err |-> r.err, out |-> NoObject, performance_model |-> r.dict]
                 ELSE [err |-> ext.err,
                       out |-> IF ext.err = ""
                               THEN IronWinCapacityModelOutputs(ext.value[1], ext.value[2])
                               ELSE NoObject,
                       performance_model |-> r.dict]

WinCostConfigDefaults == [o2_heat_integration |-> TRUE, cost_model |-> None]

\* IronWinCostModelConfig(**kw)
IronWinCostModelConfig(kw) ==
    IF {"operational_year", "plant_capacity_mtpy", "lcoh", "capex_misc", "feedstocks"}
           \ DOMAIN kw # {}
    THEN [err |-> "TypeError", obj |-> NoObject]
    ELSE [err |-> "", obj |-> WithDefaults(kw, WinCostConfigDefaults)]

\* the built-in branch of run_iron_win_cost_model
WinCostPlaceholder(config) ==
    LET fs  == config.feedstocks
        x   == config.plant_capacity_mtpy
        cap == config.plant_capacity_mtpy[1]
        capex_eaf_casting   == Curve(352191, 52370, x, "e45600")
        capex_shaft_furnace == Curve(489, 68061, x, "e88741")
        capex_oxygen_supply == Curve(1715, 21508, x, "e64574")
        h2_preheating       == IF config.o2_heat_integration
                               THEN MulDiv(Curve(45, 69123, x, "e86564"), 6, 10)
                               ELSE Curve(45, 69123, x, "e86564")
        cooling_tower       == IF config.o2_heat_integration
                               THEN MulDiv(Curve(2513, 8314, x, "e63325"), 7, 10)
                               ELSE Curve(2513, 8314, x, "e63325")
        capex_piping        == Curve(11815, 72718, x, "e59983")
        capex_elec_instr    == Curve(7877, 15146, x, "e59983")
        capex_buildings_storage_water == Curve(1097, 81876, x, "e80000")
        tpc == capex_eaf_casting + capex_shaft_furnace + capex_oxygen_supply
               + h2_preheating + cooling_tower + capex_piping + capex_elec_instr
               + capex_buildings_storage_water + config.capex_misc
        labor_cost_annual_operation ==
            MulDiv(693759969, LaborPow(x), 10 * LaborPowReference)
        labor_cost_maintenance == MulDiv(tpc, 863, 100000)
        labor_cost_admin_support ==
            MulDiv(labor_cost_annual_operation + labor_cost_maintenance, 25, 100)
        property_tax_insurance == MulDiv(tpc, 2, 100)
        labor_cost_fivemonth ==
            MulDiv(labor_cost_annual_operation + labor_cost_maintenance
                       + labor_cost_admin_support, 5, 12)
        consumables ==
            MulE5(fs.raw_water_consumption, fs.raw_water_unitcost)
            + MulE5(fs.lime_consumption, fs.lime_unitcost)
            + MulE5(fs.carbon_consumption, fs.carbon_unitcost)
            + MulE5(fs.iron_ore_consumption, fs.iron_ore_pellet_unitcost)
        energy ==
            MulE5(fs.hydrogen_consumption, config.lcoh) * 1000
            + MulE5(fs.natural_gas_consumption,
                    fs.natural_gas_prices[Str(config.operational_year)])
            + MulE5(fs.electricity_consumption, fs.electricity_cost)
        spare_parts_cost == MulDiv(tpc, 5, 1000)
        misc_owners_costs == MulDiv(tpc, 15, 100)
    IN  IF Str(config.operational_year) \notin DOMAIN fs.natural_gas_prices
        THEN [err |-> "KeyError", out |-> NoObject]
        ELSE [err |-> "",
              out |->
                [ capex_eaf_casting   |-> capex_eaf_casting,
                  capex_shaft_furnace |-> capex_shaft_furnace,
                  capex_oxygen_supply |-> capex_oxygen_supply,
                  capex_h2_preheating |-> h2_preheating,
                  capex_cooling_tower |-> cooling_tower,
                  capex_piping        |-> capex_piping,
                  capex_elec_instr    |-> capex_elec_instr,
                  capex_buildings_storage_water |-> capex_buildings_storage_water,
                  capex_misc          |-> config.capex_misc,
                  total_plant_cost    |-> tpc,
                  labor_cost_annual_operation |-> labor_cost_annual_operation,
                  labor_cost_maintenance      |-> labor_cost_maintenance,
                  labor_cost_admin_support    |-> labor_cost_admin_support,
                  property_tax_insurance      |-> property_tax_insurance,
                  total_fixed_operating_cost  |->
                      labor_cost_annual_operation + labor_cost_maintenance
                      + labor_cost_admin_support + property_tax_insurance,
                  labor_cost_fivemonth |-> labor_cost_fivemonth,
                  maintenance_materials_onemonth |->
                      MulDiv(fs.maintenance_materials_unitcost, cap, 12 * E5),
                  non_fuel_consumables_onemonth |-> MulDiv(consumables, cap, 12 * E5),
                  waste_disposal_onemonth |->
                      MulDiv(MulE5(fs.slag_disposal_unitcost, fs.slag_production),
                             cap, 12 * E5),
                  monthly_energy_cost |-> MulDiv(energy, cap, 12 * E5),
                  spare_parts_cost    |-> spare_parts_cost,
                  land_cost           |-> MulDiv(cap, 775, 1000),
                  misc_owners_costs   |-> misc_owners_costs,
                  installation_cost   |->
                      labor_cost_fivemonth + MulDiv(tpc, 2, 100)
                      + MulDiv(consumables, cap * 60, 365 * E5)
                      + spare_parts_cost + misc_owners_costs ]]

\* the names the external branch of run_iron_win_cost_model unpacks into
WinCostFieldOrder ==
    << "capex_eaf_casting", "capex_shaft_furnace", "capex_oxygen_supply",
       "capex_h2_preheating", "capex_cooling_tower", "capex_piping",
       "capex_elec_instr", "capex_buildings_storage_water", "capex_misc",
       "total_plant_cost", "labor_cost_annual_operation", "labor_cost_maintenance",
       "labor_cost_admin_support", "property_tax_insurance",
       "total_fixed_operating_cost", "labor_cost_fivemonth",
       "maintenance_materials_onemonth", "non_fuel_consumables_onemonth",
       "waste_disposal_onemonth", "monthly_energy_cost", "spare_parts_cost",
       "land_cost", "misc_owners_costs", "installation_cost" >>

WinCostExternal(ext) ==
    IF ext.err # "" THEN [err |-> ext.err, out |-> NoObject]
    ELSE IF Len(ext.value) # Len(WinCostFieldOrder)
    THEN [err |-> "ValueError", out |-> NoObject]
    ELSE [err |-> "",
          out |-> [f \in {WinCostFieldOrder[i] : i \in 1..Len(WinCostFieldOrder)} |->
                      ext.value[CHOOSE i \in 1..Len(WinCostFieldOrder) :
                                    WinCostFieldOrder[i] = f]]]

run_iron_win_cost_model(config, ext) ==
    LET cm == config.cost_model
    IN  IF cm = None
        THEN [err |-> "TypeError", out |-> NoObject, cost_model |-> cm]
        ELSE IF cm.name = "placeholder"
        THEN [err |-> WinCostPlaceholder(config).err,
              out |-> WinCostPlaceholder(config).out,
              cost_model |-> cm]
        ELSE LET r == ResolvePaths("cost", cm)
             IN  IF r.err # ""
                 THEN [err |-> r.err, out |-> NoObject, cost_model |-> r.dict]
                 ELSE [err |-> WinCostExternal(ext).err,
                       out |-> WinCostExternal(ext).out,
                       cost_model |-> r.dict]

run_iron_win_model(plant_capacity_mtpy, plant_capacity_factor) ==
    RMul(plant_capacity_mtpy, plant_capacity_factor)

WinFinanceConfigDefaults ==
    [ o2_heat_integration |-> TRUE,
      financial_assumptions |-> <<>>,
      install_years |-> 3,
      gen_inflation |-> 0,
      save_plots |-> FALSE,
      show_plots |-> FALSE,
      output_dir |-> "./output/",
      design_scenario_id |-> 0 ]

\* IronWinFinanceModelConfig(**kw)
IronWinFinanceModelConfig(kw) ==
    IF {"plant_life", "plant_capacity_mtpy", "plant_capacity_factor",
        "iron_win_production_mtpy", "lcoh", "grid_prices", "feedstocks", "costs"}
           \ DOMAIN kw # {}
    THEN [err |-> "TypeError", obj |-> NoObject]
    ELSE [err |-> "", obj |-> WithDefaults(kw, WinFinanceConfigDefaults)]

IronWinFinanceModelOutputs(sol, summary, price_breakdown) ==
    [sol |-> sol, summary |-> summary, price_breakdown |-> price_breakdown]

\* variant: the land sale escalated over the installation years as well
WinStageParams_LandOverInstall(config) ==
    LET costs == config.costs
        infl  == config.gen_inflation
    IN  << <<"commodity", [name |-> "iron electrowinning", unit |-> "metric tonnes",
                           initial_price |-> 1000, escalation |-> infl]>>,
           <<"capacity", RDiv(config.plant_capacity_mtpy, RInt(365))>>,
           <<"maintenance", [value |-> 0, escalation |-> infl]>>,
           <<"analysis start year",
             IntOf(config.grid_prices[1][1]) - config.install_years>>,
           <<"operating life", config.plant_life>>,
           <<"installation months", 12 * config.install_years>>,
           <<"installation cost", [value |-> costs.installation_cost,
                                   depr_type |-> "Straight line",
                                   depr_period |-> 4, depreciable |-> FALSE]>>,
           <<"non depr assets", costs.land_cost>>,
           <<"end of proj sale non depr assets",
             MulDiv(costs.land_cost,
                    Compound(infl, config.plant_life + config.install_years), E5)>>,
           <<"demand rampup", <<53, 10>> >>,
           <<"long term utilization", config.plant_capacity_factor>>,
           <<"credit card fees", 0>>,
           <<"sales tax", 0>>,
           <<"license and permit", [value |-> 0, escalation |-> infl]>>,
           <<"rent", [value |-> 0, escalation |-> infl]>>,
           <<"property tax and insurance", 0>>,
           <<"admin expense", 0>>,
           <<"sell undepreciated cap", TRUE>>,
           <<"tax losses monetized", TRUE>>,
           <<"general inflation rate", infl>>,
           <<"debt type", "Revolving debt">>,
           <<"cash onhand", 1>> >>

\* the parameters run_iron_win_finance_model sets itself, in order
WinStageParams(config) ==
    LET costs == config.costs
        infl  == config.gen_inflation
    IN  << <<"commodity", [name |-> "iron electrowinning", unit |-> "metric tonnes",
                           initial_price |-> 1000, escalation |-> infl]>>,
           <<"capacity", RDiv(config.plant_capacity_mtpy, RInt(365))>>,
           <<"maintenance", [value |-> 0, escalation |-> infl]>>,
           <<"analysis start year",
             IntOf(config.grid_prices[1][1]) - config.install_years>>,
           <<"operating life", config.plant_life>>,
           <<"installation months", 12 * config.install_years>>,
           <<"installation cost", [value |-> costs.installation_cost,
                                   depr_type |-> "Straight line",
                                   depr_period |-> 4, depreciable |-> FALSE]>>,
           <<"non depr assets", costs.land_cost>>,
           <<"end of proj sale non depr assets",
             MulDiv(costs.land_cost, Compound(infl, config.plant_life), E5)>>,
           <<"demand rampup", <<53, 10>> >>,
           <<"long term utilization", config.plant_capacity_factor>>,
           <<"credit card fees", 0>>,
           <<"sales tax", 0>>,
           <<"license and permit", [value |-> 0, escalation |-> infl]>>,
           <<"rent", [value |-> 0, escalation |-> infl]>>,
           <<"property tax and insurance", 0>>,
           <<"admin expense", 0>>,
           <<"sell undepreciated cap", TRUE>>,
           <<"tax losses monetized", TRUE>>,
           <<"general inflation rate", infl>>,
           <<"debt type", "Revolving debt">>,
           <<"cash onhand", 1>> >>

WinCapitalItems(costs) ==
    << <<"EAF & Casting", costs.capex_eaf_casting>>,
       <<"Shaft Furnace", costs.capex_shaft_furnace>>,
       <<"Oxygen Supply", costs.capex_oxygen_supply>>,
       <<"H2 Pre-heating", costs.capex_h2_preheating>>,
       <<"Cooling Tower", costs.capex_cooling_tower>>,
       <<"Piping", costs.capex_piping>>,
       <<"Electrical & Instrumentation", costs.capex_elec_instr>>,
       <<"Buildings, Storage, Water Service", costs.capex_buildings_storage_water>>,
       <<"Other Miscellaneous Costs", costs.capex_misc>> >>

WinFixedCosts(config) ==
    << <<"Annual Operating Labor Cost", config.costs.labor_cost_annual_operation,
         config.gen_inflation>>,
       <<"Maintenance Labor Cost", config.costs.labor_cost_maintenance, config.gen_inflation>>,
       <<"Administrative & Support Labor Cost", config.costs.labor_cost_admin_support,
         config.gen_inflation>>,
       <<"Property tax and insurance", config.costs.property_tax_insurance, 0>> >>

WinFeedstockItems(config) ==
    LET fs   == config.feedstocks
        infl == config.gen_inflation
    IN  << <<"Maintenance Materials", E5, "Units per metric tonne of iron",
             fs.maintenance_materials_unitcost, infl>>,
           <<"Raw Water Withdrawal", fs.raw_water_consumption,
             "metric tonnes of water per metric tonne of iron",
             fs.raw_water_unitcost, infl>>,
           <<"Lime", fs.lime_consumption,
             "metric tonnes of lime per metric tonne of iron", fs.lime_unitcost, infl>>,
           <<"Carbon", fs.carbon_consumption,
             "metric tonnes of carbon per metric tonne of iron", fs.carbon_unitcost, infl>>,
           <<"Iron Ore", fs.iron_ore_consumption,
             "metric tonnes of iron ore per metric tonne of iron",
             fs.iron_ore_pellet_unitcost, infl>>,
           <<"Hydrogen", fs.hydrogen_consumption,
             "metric tonnes of hydrogen per metric tonne of iron",
             config.lcoh * 1000, infl>>,
           <<"Natural Gas", fs.natural_gas_consumption,
             "GJ-LHV per metric tonne of iron", fs.natural_gas_prices, infl>>,
           <<"Electricity", fs.electricity_consumption,
             "MWh per metric tonne of iron", config.grid_prices, infl>>,
           <<"Slag Disposal", fs.slag_production,
             "metric tonnes of slag per metric tonne of iron",
             fs.slag_disposal_unitcost, infl>> >>

\* run_iron_win_finance_model up to the solve: the ProFAST object as it is
\* when the solve is invoked, or the error raised on the way
WinAssembleProFAST(config) ==
    IF config.grid_prices = <<>>
    THEN [err |-> "IndexError", pf |-> NoObject]
    ELSE [err |-> "",
          pf |-> add_coproduct(
                     AddFeedstocks(
                         AddFixedCosts(
                             AddCapitalItems(
                                 SetAll(SetAll(ProFAST, config.financial_assumptions),
                                        WinStageParams(config)),
                                 WinCapitalItems(config.costs)),
                             WinFixedCosts(config)),
                         WinFeedstockItems(config)),
                     "Oxygen sales", config.feedstocks.excess_oxygen,
                     "kg O2 per metric tonne of iron",
                     config.feedstocks.oxygen_market_price, config.gen_inflation)]

\* the four directories and four files of run_iron_win_finance_model
WinArtifacts(config) ==
    IF config.save_plots \/ config.show_plots
    THEN { <<config.output_dir, "figures/capex/">>,
           <<config.output_dir, "figures/annual_cash_flow/">>,
           <<config.output_dir, "figures/lcos_breakdown/">>,
           <<config.output_dir, "data/">>,
           <<config.output_dir, "figures/capex/iron_win_capital_expense.pdf",
             config.design_scenario_id>>,
           <<config.output_dir, "figures/annual_cash_flow/iron_win_cash_flow.png",
             config.design_scenario_id>>,
           <<config.output_dir, "data/iron_win_cash_flow.csv", config.design_scenario_id>>,
           <<config.output_dir, "figures/lcos_breakdown/lcos", config.design_scenario_id>> }
    ELSE {}

\* the three plot calls of run_iron_win_finance_model
WinPlots(p, config) ==
    IF config.save_plots \/ config.show_plots
    THEN [p EXCEPT !.plots = @ \o << <<"plot_capital_expenses", config.show_plots>>,
                                     <<"plot_cashflow", config.show_plots>>,
                                     <<"plot_costs", config.show_plots>> >>]
    ELSE p

\* the consistency check of run_iron_win_full_model; "" when it passes
WinLcohGate(config) ==
    IF "lcoh" \notin DOMAIN config.costs \/ "lcoh" \notin DOMAIN config.finances
    THEN "KeyError"
    ELSE IF config.costs.lcoh # config.finances.lcoh
    THEN "ValueError: iron electrowinning cost LCOH and iron electrowinning finance LCOH are not equal"
    ELSE ""

\* a stage the runner did not get to
Skipped == [err |-> "skipped"]

\* run_iron_win_full_model up to the sizing call: the LCOH check, the
\* feedstocks, the capacity config and run_size_iron_win_plant_capacity
WinSizing(config, o) ==
    LET f  == WinFeedstocks(config.costs.feedstocks)
        ck == CallKwargs([feedstocks |-> f], config.capacity)
        cc == IF ck.err # "" THEN [err |-> ck.err, obj |-> NoObject]
              ELSE IronWinCapacityModelConfig(ck.kw)
        sz == run_size_iron_win_plant_capacity(
                  [cc.obj EXCEPT !.performance_model = config.performance_model], o.size)
    IN  IF WinLcohGate(config) # ""
        THEN [err |-> WinLcohGate(config), called |-> FALSE, out |-> NoObject]
        ELSE IF cc.err # "" THEN [err |-> cc.err, called |-> FALSE, out |-> NoObject]
        ELSE [err |-> sz.err, called |-> TRUE, out |-> sz.out, feedstocks |-> f,
              input_capacity_factor_estimate |-> cc.obj.input_capacity_factor_estimate]

\* the cost config and run_iron_win_cost_model, after the sizing s
WinCosting(config, s, o) ==
    LET kk == CallKwargs([plant_capacity_mtpy |-> s.out.iron_win_plant_capacity_mtpy],
                         SetItem(config.costs, "feedstocks", s.feedstocks))
        kc == IF kk.err # "" THEN [err |-> kk.err, obj |-> NoObject]
              ELSE IronWinCostModelConfig(kk.kw)
        cs == run_iron_win_cost_model(
                  [kc.obj EXCEPT !.plant_capacity_mtpy = s.out.iron_win_plant_capacity_mtpy,
                                 !.cost_model = config.cost_model], o.cost)
    IN  IF kc.err # "" THEN [err |-> kc.err, called |-> FALSE, out |-> NoObject]
        ELSE [err |-> cs.err, called |-> TRUE, out |-> cs.out]

\* the finance config and run_iron_win_finance_model up to the solve, after
\* the sizing s and the costing c
WinFinancing(config, ra, s, c) ==
    LET fk == CallKwargs(
                  [ plant_capacity_mtpy |-> s.out.iron_win_plant_capacity_mtpy,
                    plant_capacity_factor |-> s.input_capacity_factor_estimate,
                    iron_win_production_mtpy |->
                        run_iron_win_model(s.out.iron_win_plant_capacity_mtpy,
                                           s.input_capacity_factor_estimate),
                    costs |-> c.out,
                    show_plots |-> ra.show_plots,
                    save_plots |-> ra.save_plots,
                    output_dir |-> ra.output_dir,
                    design_scenario_id |-> ra.design_scenario_id ],
                  SetItem(config.finances, "feedstocks", s.feedstocks))
        fc == IF fk.err # "" THEN [err |-> fk.err, obj |-> NoObject]
              ELSE IronWinFinanceModelConfig(fk.kw)
    IN  IF fc.err # ""
        THEN [err |-> fc.err, called |-> FALSE, config |-> NoObject, pf |-> NoObject]
        ELSE [err |-> WinAssembleProFAST(fc.obj).err, called |-> TRUE, config |-> fc.obj,
              pf |-> WinAssembleProFAST(fc.obj).pf]

\* what run_iron_win_full_model leaves behind after its stages s (sizing),
\* c (costing), f (finance up to the solve) and v (the solve)
WinReturn(s, c, f, v) ==
    LET done == s.err = "" /\ c.err = "" /\ f.err = "" /\ v.err = ""
        fin  == IronWinFinanceModelOutputs(v.pf.answers.sol, v.pf.answers.summary,
                                           v.pf.answers.price_breakdown)
    IN  [ err |-> IF s.err # "" THEN s.err ELSE IF c.err # "" THEN c.err
                  ELSE IF f.err # "" THEN f.err ELSE v.err,
          calls |-> (IF s.called THEN <<"size">> ELSE <<>>)
                    \o (IF c.err # "skipped" /\ c.called THEN <<"cost">> ELSE <<>>)
                    \o (IF f.err # "skipped" /\ f.called THEN <<"finance">> ELSE <<>>),
          capacity |-> IF s.err = "" THEN s.out ELSE NoObject,
          costs |-> IF s.err = "" /\ c.err = "" THEN c.out ELSE NoObject,
          pf |-> IF v.err = "skipped" THEN NoObject
                 ELSE IF done THEN WinPlots(v.pf, f.config) ELSE v.pf,
          finance |-> IF done THEN fin ELSE NoObject,
          result |-> IF done THEN <<s.out, c.out, fin>> ELSE NoObject,
          files |-> IF done THEN WinArtifacts(f.config) ELSE {} ]

\* run_iron_ore_full_model up to the sizing call (RfCopy .. RfSize)
OreSizing(config, o) ==
    LET f  == Feedstocks(config.costs.feedstocks)
        ck == CallKwargs([feedstocks |-> f], config.capacity)
        cc == IF ck.err # "" THEN [err |-> ck.err, obj |-> NoObject]
              ELSE IronOreCapacityModelConfig(ck.kw)
        sz == run_size_iron_ore_plant_capacity(
                  [cc.obj EXCEPT !.performance_model = config.performance_model], o.size)
    IN  IF LcohGate(config) # ""
        THEN [err |-> LcohGate(config), called |-> FALSE, out |-> NoObject]
        ELSE IF cc.err # "" THEN [err |-> cc.err, called |-> FALSE, out |-> NoObject]
        ELSE [err |-> sz.err, called |-> TRUE, out |-> sz.out, feedstocks |-> f,
              input_capacity_factor_estimate |-> cc.obj.input_capacity_factor_estimate]

\* RfCostConfig .. RfCost, after the sizing s
OreCosting(config, s, o) ==
    LET kk == CallKwargs([plant_capacity_mtpy |-> s.out.iron_ore_plant_capacity_mtpy],
                         SetItem(config.costs, "feedstocks", s.feedstocks))
        kc == IF kk.err # "" THEN [err |-> kk.err, obj |-> NoObject]
              ELSE IronOreCostModelConfig(kk.kw)
        cs == run_iron_ore_cost_model(
                  [kc.obj EXCEPT !.plant_capacity_mtpy = s.out.iron_ore_plant_capacity_mtpy,
                                 !.cost_model = config.cost_model], o.cost)
    IN  IF kc.err # "" THEN [err |-> kc.err, called |-> FALSE, out |-> NoObject]
        ELSE [err |-> cs.err, called |-> TRUE, out |-> cs.out]

\* RfFinanceConfig and FinAssemble, after the sizing s and the costing c
OreFinancing(config, ra, s, c) ==
    LET fk == FinanceKwargs(s.out, s, c.out, ra,
                            SetItem(config.finances, "feedstocks", s.feedstocks))
        fc == IF fk.err # "" THEN [err |-> fk.err, obj |-> NoObject]
              ELSE IronOreFinanceModelConfig(fk.kw)
    IN  IF fc.err # ""
        THEN [err |-> fc.err, called |-> FALSE, config |-> NoObject, pf |-> NoObject]
        ELSE [err |-> AssembleProFAST(fc.obj).err, called |-> TRUE, config |-> fc.obj,
              pf |-> AssembleProFAST(fc.obj).pf]

\* a stage, when every stage before it returned
After(before, stage) ==
    IF \A i \in DOMAIN before : before[i].err = "" THEN stage ELSE Skipped

\* what run_iron_ore_full_model leaves behind after its stages s (sizing),
\* c (costing), f (finance up to the solve) and v (the solve)
OreReturn(s, c, f, v) ==
    LET done == s.err = "" /\ c.err = "" /\ f.err = "" /\ v.err = ""
        fin  == IronOreFinanceModelOutputs(v.pf.answers.sol, v.pf.answers.summary,
                                           v.pf.answers.price_breakdown)
    IN  [ err |-> IF s.err # "" THEN s.err ELSE IF c.err # "" THEN c.err
                  ELSE IF f.err # "" THEN f.err ELSE v.err,
          calls |-> (IF s.called THEN <<"size">> ELSE <<>>)
                    \o (IF c.err # "skipped" /\ c.called THEN <<"cost">> ELSE <<>>)
                    \o (IF f.err # "skipped" /\ f.called THEN <<"finance">> ELSE <<>>),
          capacity |-> IF s.err = "" THEN s.out ELSE NoObject,
          costs |-> IF s.err = "" /\ c.err = "" THEN c.out ELSE NoObject,
          pf |-> IF v.err = "skipped" THEN NoObject
                 ELSE IF done THEN Plots(v.pf, f.config) ELSE v.pf,
          finance |-> IF done THEN fin ELSE NoObject,
          result |-> IF done THEN <<s.out, c.out, fin>> ELSE NoObject,
          files |-> IF done THEN Artifacts(f.config) ELSE {} ]

-----------------------------------------------------------------------------
(* SpecTwin: the two runners are each called once on the same 'iron'
   configuration, with the external models and the solver behaving the same
   way in both calls. *)

\* the configuration as the electrowinning module reads it: the demand field
\* of the capacity section carries that module's name
WinConfigOf(config) ==
    [config EXCEPT !.capacity =
        [k \in {IF j = "desired_iron_ore_mtpy" THEN "desired_iron_win_mtpy" ELSE j :
                    j \in DOMAIN config.capacity} |->
            IF k = "desired_iron_win_mtpy" THEN config.capacity.desired_iron_ore_mtpy
            ELSE config.capacity[k]]]

\* the outcomes of an external model that matter to a run: all of them when
\* the descriptor names an external model, a single one when the built-in
\* branch is taken and the external model is never imported
Reachable(descriptor, outcomes) ==
    IF descriptor.name = "placeholder"
    THEN {CHOOSE o \in outcomes : o.err # ""}
    ELSE outcomes

InitTwin ==
    /\ pc = "tw_idle"
    /\ error = ""
    /\ calls = <<>>
    /\ args = NoObject
    /\ inv_config = NoObject
    /\ inv_capacity = NoObject
    /\ alt_costs = NoObject
    /\ model_outputs = NoObject
    /\ alt_pf = NoObject
    /\ greenheart_config \in RunConfigs
    /\ snapshot = greenheart_config
    /\ run_args \in (IF greenheart_config = BaseConfig THEN RunArgs ELSE {BaseRunArgs})
    /\ NoLocals
    /\ result = NoObject
    /\ runs = 0
    /\ files = {}
    /\ collaborators \in [size : Reachable(greenheart_config.performance_model,
                                            ExtSizeOutcomes),
                          cost : Reachable(greenheart_config.cost_model, ExtCostOutcomes),
                          solver : SolverOutcomes]
    /\ iron_win = NoObject
    /\ ToolsIdle

\* run_iron_ore_full_model(greenheart_config, **run_args)
TwOre ==
    /\ pc \in {"tw_idle", "tw_win"}
    /\ \E s \in {OreSizing(greenheart_config, collaborators)} :
       \E c \in {After(<<s>>, OreCosting(greenheart_config, s, collaborators))} :
       \E f \in {After(<<s, c>>, OreFinancing(greenheart_config, run_args, s, c))} :
       \E v \in {After(<<s, c, f>>, solve_price(f.pf, collaborators.solver))} :
       \E r \in {OreReturn(s, c, f, v)} :
           /\ error' = r.err
           /\ calls' = r.calls
           /\ iron_ore_capacity' = r.capacity
           /\ iron_ore_costs' = r.costs
           /\ pf' = r.pf
           /\ iron_ore_finance' = r.finance
           /\ result' = r.result
           /\ files' = files \cup r.files
    /\ pc' = IF pc = "tw_idle" THEN "tw_ore" ELSE "tw_both"
    /\ UNCHANGED <<args, capacity_config, inv_config, inv_capacity, iron_ore_cost_config,
                   alt_costs, model_outputs, greenheart_config, snapshot, iron_ore_config,
                   shared, run_args, feedstocks, iron_ore_finance_config, alt_pf, runs,
                   collaborators, iron_win, toolVars>>

\* run_iron_win_full_model(greenheart_config, **run_args)
TwWin ==
    /\ pc \in {"tw_idle", "tw_ore"}
    /\ \E w \in {WinConfigOf(greenheart_config)} :
       \E s \in {WinSizing(w, collaborators)} :
       \E c \in {After(<<s>>, WinCosting(w, s, collaborators))} :
       \E f \in {After(<<s, c>>, WinFinancing(w, run_args, s, c))} :
       \E v \in {After(<<s, c, f>>, solve_price(f.pf, collaborators.solver))} :
       \E r \in {WinReturn(s, c, f, v)} :
           /\ iron_win' = r
           /\ files' = files \cup r.files
    /\ pc' = IF pc = "tw_idle" THEN "tw_win" ELSE "tw_both"
    /\ UNCHANGED <<error, calls, sizeVars, costVars, greenheart_config, snapshot,
                   iron_ore_config, shared, run_args, feedstocks, iron_ore_finance_config,
                   pf, alt_pf, iron_ore_finance, result, runs, collaborators, toolVars>>

NextTwin == TwOre \/ TwWin

SpecTwin == InitTwin /\ [][NextTwin]_vars

\* a ProFAST entry without its unit label
Unlabelled(item) ==
    [name |-> item.name, usage |-> item.usage, cost |-> item.cost,
     escalation |-> item.escalation]

\* C26: on the same configuration the two runners accept or reject together,
\* return equal capacity, hydrogen amount and cost outputs, and hand the solver
\* the same parameters, capital items, fixed costs, feedstocks and co-product,
\* apart from the commodity name and the unit labels.
C26_SamePipeline ==
    pc = "tw_both" =>
        /\ (error = "") <=> (iron_win.err = "")
        /\ calls = iron_win.calls
        /\ (iron_ore_capacity = NoObject) <=> (iron_win.capacity = NoObject)
        /\ iron_ore_capacity # NoObject =>
               /\ iron_ore_capacity.iron_ore_plant_capacity_mtpy
                      = iron_win.capacity.iron_win_plant_capacity_mtpy
               /\ iron_ore_capacity.hydrogen_amount_kgpy
                      = iron_win.capacity.hydrogen_amount_kgpy
        /\ iron_ore_costs = iron_win.costs
        /\ iron_ore_finance = iron_win.finance
        /\ (pf = NoObject) <=> (iron_win.pf = NoObject)
        /\ pf # NoObject =>
               /\ DOMAIN pf.params = DOMAIN iron_win.pf.params
               /\ \A k \in DOMAIN pf.params \ {"commodity"} :
                      pf.params[k] = iron_win.pf.params[k]
               /\ [pf.params.commodity EXCEPT !.name = "-"]
                      = [iron_win.pf.params.commodity EXCEPT !.name = "-"]
               /\ pf.capital_items = iron_win.pf.capital_items
               /\ pf.fixed_costs = iron_win.pf.fixed_costs
               /\ Len(pf.feedstocks) = Len(iron_win.pf.feedstocks)
               /\ \A i \in DOMAIN pf.feedstocks :
                      Unlabelled(pf.feedstocks[i]) = Unlabelled(iron_win.pf.feedstocks[i])
               /\ Len(pf.coproducts) = Len(iron_win.pf.coproducts)
               /\ \A i \in DOMAIN pf.coproducts :
                      Unlabelled(pf.coproducts[i]) = Unlabelled(iron_win.pf.coproducts[i])
               /\ pf.solves = iron_win.pf.solves
               /\ pf.plots = iron_win.pf.plots

\* both runners returned, and the two ProFAST objects differ in the commodity
\* name and in a unit label
C26_Witness ==
    /\ pc = "tw_both"
    /\ error = ""
    /\ iron_win.err = ""
    /\ greenheart_config.finances.gen_inflation # 0
    /\ pf.params.commodity.name # iron_win.pf.params.commodity.name
    /\ pf.feedstocks[1].unit # iron_win.pf.feedstocks[1].unit
    /\ pf.coproducts[1].unit # iron_win.pf.coproducts[1].unit


-----------------------------------------------------------------------------
(* The natural-gas price lookup of the built-in cost branch *)

\* the operational year is not a key of the natural-gas price schedule
YearAbsent ==
    \A key \in DOMAIN snapshot.costs.feedstocks.natural_gas_prices :
        IntOf(key) # snapshot.costs.operational_year

BuiltInCostRun == snapshot.cost_model.name = "placeholder"

StagesCalled == {calls[i] : i \in DOMAIN calls}

\* C27: a run on the built-in cost branch has cost outputs only if the
\* operational year is a key of natural_gas_prices; when the year is absent the
\* cost stage raises KeyError and returns nothing, and the finance stage is
\* never invoked.
C27_GasPriceLookup ==
    BuiltInCostRun =>
        /\ iron_ore_costs # NoObject => ~YearAbsent
        /\ YearAbsent =>
               /\ "finance" \notin StagesCalled
               /\ iron_ore_finance_config = NoObject
               /\ pf = NoObject
               /\ iron_ore_finance = NoObject
               /\ result = NoObject
               /\ "cost" \in StagesCalled =>
                      /\ pc = "rf_raised"
                      /\ error = "KeyError"
                      /\ iron_ore_costs = NoObject

\* the cost stage was called for a year outside the schedule and raised
C27_Witness ==
    /\ BuiltInCostRun
    /\ YearAbsent
    /\ calls = <<"size", "cost">>
    /\ iron_ore_capacity # NoObject
    /\ error = "KeyError"
    /\ pc = "rf_raised"


-----------------------------------------------------------------------------
(* SpecKeys: the ArcGIS developer key held in a module global of tools/keys.py.
   A str is a record [text |-> <<characters>>]; calls logs the calls made. *)

MaxKeyCalls == 3        \* calls made by the client of the module

Text(chars) == [text |-> chars]

\* len(key) of a str
StrLen(key) == Len(key.text)

\* the keys a caller passes: None, and strings of 0, 39, 40 and 41 characters
ArcgisKeys ==
    {None} \cup {Text([i \in 1..n |-> c]) : c \in {"a", "b"}, n \in {0, 39, 40, 41}}

\* what os.getenv("ARCGIS_API_KEY") gives after load_dotenv
EnvValues == {None, Text([i \in 1..40 |-> "e"]), Text([i \in 1..8 |-> "e"])}

InitKeys ==
    /\ pc = "ky_imported"
    /\ error = ""
    /\ calls = <<>>
    /\ result = NoObject
    /\ args = NoObject
    /\ capacity_config = NoObject
    /\ iron_ore_capacity = NoObject
    /\ inv_config = NoObject
    /\ inv_capacity = NoObject
    /\ CostIdle
    /\ greenheart_config = NoObject
    /\ snapshot = NoObject
    /\ run_args = NoObject
    /\ alt_pf = NoObject
    /\ runs = 0
    /\ files = {}
    /\ collaborators = NoObject
    /\ iron_win = NoObject
    /\ iron_ore_config = NoObject
    /\ shared = {}
    /\ feedstocks = NoObject
    /\ iron_ore_cost_config = NoObject
    /\ iron_ore_costs = NoObject
    /\ iron_ore_finance_config = NoObject
    /\ pf = NoObject
    /\ iron_ore_finance = NoObject
    /\ KeysIdle
    /\ RefurbIdle
    /\ HoppIdle

\* set_developer_arcgis_gov_key(key)
set_developer_arcgis_gov_key(key) ==
    /\ developer_arcgis_gov_key' = key
    /\ error' = ""
    /\ result' = NoObject

\* a caller calls set_developer_arcgis_gov_key(key)
KySet ==
    /\ Len(calls) < MaxKeyCalls
    /\ \E key \in ArcgisKeys :
         /\ set_developer_arcgis_gov_key(key)
         /\ calls' = Append(calls, <<"set", key>>)
    /\ UNCHANGED <<pc, sizeVars, costVars, greenheart_config, snapshot, iron_ore_config,
                   shared, run_args, feedstocks, iron_ore_finance_config, pf, alt_pf,
                   iron_ore_finance, runs, files, collaborators, iron_win,
                   electrolyzer_physics_results, electrolyzer_config, replacement_schedule,
                   refurb_cost_percent, load, combined_hybrid_power_production_hopp, energy_shortfall_hopp,
                   combined_hybrid_curtailment_hopp>>

\* get_developer_arcgis_gov_key() when the global holds key
GetOutcome(key) ==
    IF key = Unbound THEN [err |-> "NameError", value |-> NoObject]
    ELSE IF key = None THEN [err |-> "ValueError", value |-> NoObject]
    ELSE IF StrLen(key) # 40 THEN [err |-> "ValueError", value |-> NoObject]
    ELSE [err |-> "", value |-> key]

\* a caller calls get_developer_arcgis_gov_key()
KyGet ==
    /\ Len(calls) < MaxKeyCalls
    /\ error' = GetOutcome(developer_arcgis_gov_key).err
    /\ result' = GetOutcome(developer_arcgis_gov_key).value
    /\ calls' = Append(calls, <<"get">>)
    /\ UNCHANGED <<pc, sizeVars, costVars, greenheart_config, snapshot, iron_ore_config,
                   shared, run_args, feedstocks, iron_ore_finance_config, pf, alt_pf,
                   iron_ore_finance, runs, files, collaborators, iron_win, toolVars>>

\* a caller calls set_arcgis_key_dot_env(path): the key is set when the
\* environment has one
KyDotEnv ==
    /\ Len(calls) < MaxKeyCalls
    /\ \E ARCGIS_API_KEY \in EnvValues :
         IF ARCGIS_API_KEY # None
         THEN /\ set_developer_arcgis_gov_key(ARCGIS_API_KEY)
              /\ calls' = calls \o << <<"dot_env">>, <<"set", ARCGIS_API_KEY>> >>
         ELSE /\ calls' = Append(calls, <<"dot_env">>)
              /\ error' = ""
              /\ result' = NoObject
              /\ UNCHANGED developer_arcgis_gov_key
    /\ UNCHANGED <<pc, sizeVars, costVars, greenheart_config, snapshot, iron_ore_config,
                   shared, run_args, feedstocks, iron_ore_finance_config, pf, alt_pf,
                   iron_ore_finance, runs, files, collaborators, iron_win,
                   electrolyzer_physics_results, electrolyzer_config, replacement_schedule,
                   refurb_cost_percent, load, combined_hybrid_power_production_hopp, energy_shortfall_hopp,
                   combined_hybrid_curtailment_hopp>>

NextKeys == KySet \/ KyGet \/ KyDotEnv

SpecKeys == InitKeys /\ [][NextKeys]_vars

\* the positions of the set calls in the log
SetCalls == {i \in DOMAIN calls : calls[i][1] = "set"}

\* the key of the most recent set call
LastSetKey == calls[CHOOSE i \in SetCalls : \A j \in SetCalls : j <= i][2]

UsableKey(key) == key # None /\ StrLen(key) = 40

\* C28: the stored key is the most recently set one whatever gets were made;
\* a get returns it exactly when it is a string of 40 characters, and raises
\* ValueError in every other state, a state where no key was ever set included.
C28_KeyHolder ==
    /\ SetCalls # {} => developer_arcgis_gov_key = LastSetKey
    /\ (calls # <<>> /\ calls[Len(calls)][1] = "get") =>
           IF SetCalls # {} /\ UsableKey(LastSetKey)
           THEN error = "" /\ result = LastSetKey
           ELSE error = "ValueError" /\ result = NoObject


-----------------------------------------------------------------------------
(* SpecRefurb: the stack-replacement schedule of ElectrolyzerLCOHInputConfig
   (core/tmp.py).  Hours are whole numbers; a schedule is the sequence of its
   yearly entries, entry i + 1 of the sequence being index i of the array. *)

MaxLifetime == 8        \* rows of the performance schedule

HoursPerYear == 8760

\* round(n / d) of two non-negative numbers: to the nearest integer, a tie to
\* the even one
PyRound(n, d) ==
    LET q == n \div d
        r == n % d
    IN  IF 2 * r < d THEN q
        ELSE IF 2 * r > d THEN q + 1
        ELSE IF q % 2 = 0 THEN q ELSE q + 1

\* a[start : stop : step] = 1.0 on an array a of zeros, for start, step >= 0
SliceAssign(a, start, stop, step) ==
    IF step = 0 THEN [err |-> "ValueError: slice step cannot be zero", value |-> NoObject]
    ELSE [err |-> "",
          value |-> [i \in 1..Len(a) |->
                        IF /\ i - 1 >= start
                           /\ i - 1 < stop
                           /\ (i - 1 - start) % step = 0
                        THEN 1 ELSE a[i]]]

\* lines 102-115
calc_simple_refurb_schedule(results) ==
    LET N == Len(results.performance_schedules)
        refurb_period == PyRound(results.time_until_replacement_hrs, HoursPerYear)
    IN  SliceAssign([i \in 1..N |-> 0], refurb_period, N, refurb_period)

\* lines 117-124: MW replaced in each year over the capacity in MW
calc_complex_refurb_schedule(results) ==
    [err |-> "",
     value |-> [i \in 1..Len(results.performance_schedules) |->
                   Rat(results.performance_schedules[i] * 1000,
                       results.system_capacity_kW)]]

\* lines 79-82
use_complex_refurb(config) ==
    IF "complex_refurb" \in DOMAIN config THEN config.complex_refurb ELSE FALSE

\* the electrolyzer results: the yearly 'Refurbishment Schedule [MW replaced/year]'
\* column, the system capacity and the time until replacement
PhysicsResults ==
    { [performance_schedules |-> [i \in 1..n |-> IF i % every = 0 THEN 2 ELSE 0],
       system_capacity_kW |-> 2000,
       time_until_replacement_hrs |-> h] :
          n \in 0..MaxLifetime, every \in {4, MaxLifetime + 2},
          h \in {1000, 4380, 4381, 8760, 13140, 17520, 21900, 26280, 40000, 80000} }

ElectrolyzerConfigs ==
    { [replacement_cost_percent |-> 15],
      [replacement_cost_percent |-> 15, complex_refurb |-> FALSE],
      [replacement_cost_percent |-> 15, complex_refurb |-> TRUE] }

\* the variables of the iron runners
ironVars == <<greenheart_config, snapshot, iron_ore_config, shared, run_args, feedstocks,
              iron_ore_finance_config, pf, alt_pf, iron_ore_finance, result, runs, files,
              collaborators, iron_win>>

\* nothing of the iron pipeline has run
PipelineIdle ==
    /\ error = ""
    /\ calls = <<>>
    /\ args = NoObject
    /\ capacity_config = NoObject
    /\ iron_ore_capacity = NoObject
    /\ inv_config = NoObject
    /\ inv_capacity = NoObject
    /\ CostIdle
    /\ RunIdle

InitRefurb ==
    /\ pc = "el_new"
    /\ PipelineIdle
    /\ KeysIdle
    /\ HoppIdle
    /\ electrolyzer_physics_results \in PhysicsResults
    /\ electrolyzer_config \in ElectrolyzerConfigs
    /\ replacement_schedule = NoObject
    /\ refurb_cost_percent = NoObject

\* lines 79-100 of __attrs_post_init__
ElPostInit ==
    /\ pc = "el_new"
    /\ LET r == IF use_complex_refurb(electrolyzer_config)
                THEN calc_complex_refurb_schedule(electrolyzer_physics_results)
                ELSE calc_simple_refurb_schedule(electrolyzer_physics_results)
       IN  /\ error' = r.err
           /\ pc' = IF r.err # "" THEN "el_raised" ELSE "el_built"
           /\ replacement_schedule' = r.value
           /\ refurb_cost_percent' =
                  IF r.err # "" THEN NoObject
                  ELSE IF use_complex_refurb(electrolyzer_config)
                  THEN [i \in DOMAIN r.value |->
                           RMul(r.value[i], RInt(electrolyzer_config.replacement_cost_percent))]
                  ELSE [i \in DOMAIN r.value |->
                           r.value[i] * electrolyzer_config.replacement_cost_percent]
    /\ UNCHANGED <<calls, sizeVars, costVars, ironVars, developer_arcgis_gov_key,
                   electrolyzer_physics_results, electrolyzer_config, load,
                   combined_hybrid_power_production_hopp, energy_shortfall_hopp,
                   combined_hybrid_curtailment_hopp>>

NextRefurb == ElPostInit

SpecRefurb == InitRefurb /\ [][NextRefurb]_vars

\* the integer nearest to hours / 8760, the even one of two equally near
NearestYears(hours) ==
    CHOOSE q \in 0..(hours \div HoursPerYear + 1) :
        /\ 2 * Abs(hours - q * HoursPerYear) <= HoursPerYear
        /\ 2 * Abs(hours - q * HoursPerYear) = HoursPerYear => q % 2 = 0

\* C29: unless electrolyzer_config has a true 'complex_refurb', construction
\* yields a schedule with one entry per year of the lifetime, 1 at the indices
\* that are positive multiples of round(hours / 8760) and 0 elsewhere, for
\* every lifetime and every positive time until replacement.
C29_SimpleSchedule ==
    pc # "el_new" =>
        LET N == Len(electrolyzer_physics_results.performance_schedules)
            refurb_period ==
                NearestYears(electrolyzer_physics_results.time_until_replacement_hrs)
            simple == [i \in 1..N |->
                          IF i - 1 > 0 /\ \E k \in 1..N : i - 1 = k * refurb_period
                          THEN 1 ELSE 0]
        IN  IF "complex_refurb" \in DOMAIN electrolyzer_config
               /\ electrolyzer_config.complex_refurb
            THEN replacement_schedule
                     = calc_complex_refurb_schedule(electrolyzer_physics_results).value
            ELSE /\ error = ""
                 /\ replacement_schedule = simple


-----------------------------------------------------------------------------
(* SpecHopp: the energy metrics at the end of hopp_for_h2
   (to_organize/H2_Analysis/hopp_for_h2.py, lines 193-208).  The load is the
   caller's, the production is what the simulated plant put out; entry i + 1
   of a sequence is hour i. *)

MaxHours == 3           \* hours in the load and in the production series

EnergyLevels == {0, 3, 7}

Max0(x) == IF x > 0 THEN x ELSE 0

MinLen(a, b) == IF Len(a) < Len(b) THEN Len(a) ELSE Len(b)

\* lines 196-197: [max(0, x - y) for x, y in zip(load, production)]
shortfall_series(ld, production) ==
    [i \in 1..MinLen(ld, production) |-> Max0(ld[i] - production[i])]

\* variant: the first hour's curtailment left as computed
curtailment_series_FirstHourKept(ld, production) ==
    IF MinLen(ld, production) = 0
    THEN [err |-> "IndexError", value |-> NoObject]
    ELSE [err |-> "",
          value |-> [i \in 1..MinLen(ld, production) |-> Max0(production[i] - ld[i])]]

\* lines 198-207: [max(0, x - y) for x, y in zip(production, load)], then the
\* assignment of 0 to index 0
curtailment_series(ld, production) ==
    IF MinLen(ld, production) = 0
    THEN [err |-> "IndexError", value |-> NoObject]
    ELSE [err |-> "",
          value |-> [i \in 1..MinLen(ld, production) |->
                        IF i = 1 THEN 0 ELSE Max0(production[i] - ld[i])]]

Series == UNION {[1..n -> EnergyLevels] : n \in 0..MaxHours}

InitHopp ==
    /\ pc = "hp_simulated"
    /\ PipelineIdle
    /\ KeysIdle
    /\ RefurbIdle
    /\ load \in Series
    /\ combined_hybrid_power_production_hopp \in Series
    /\ energy_shortfall_hopp = NoObject
    /\ combined_hybrid_curtailment_hopp = NoObject

\* lines 193-208 and the return
HpMetrics ==
    /\ pc = "hp_simulated"
    /\ LET c == curtailment_series(load, combined_hybrid_power_production_hopp)
       IN  /\ energy_shortfall_hopp' =
                  shortfall_series(load, combined_hybrid_power_production_hopp)
           /\ combined_hybrid_curtailment_hopp' = c.value
           /\ error' = c.err
           /\ pc' = IF c.err # "" THEN "hp_raised" ELSE "hp_returned"
    /\ UNCHANGED <<calls, sizeVars, costVars, ironVars, developer_arcgis_gov_key,
                   electrolyzer_physics_results, electrolyzer_config, replacement_schedule,
                   refurb_cost_percent, load, combined_hybrid_power_production_hopp>>

NextHopp == HpMetrics

SpecHopp == InitHopp /\ [][NextHopp]_vars

\* C30: in the returned series the shortfall of an hour is the load left
\* uncovered, the curtailment of every hour but the first is the production
\* left unused, neither is negative, no hour has both, and the first hour's
\* curtailment is 0.
C30_ShortfallAndCurtailment ==
    pc = "hp_returned" =>
        /\ DOMAIN energy_shortfall_hopp = DOMAIN combined_hybrid_curtailment_hopp
        /\ \A i \in DOMAIN energy_shortfall_hopp :
               LET surplus == combined_hybrid_power_production_hopp[i] - load[i]
               IN  /\ energy_shortfall_hopp[i] = (IF surplus < 0 THEN -surplus ELSE 0)
                   /\ i > 1 => combined_hybrid_curtailment_hopp[i]
                                   = (IF surplus > 0 THEN surplus ELSE 0)
                   /\ energy_shortfall_hopp[i] >= 0
                   /\ combined_hybrid_curtailment_hopp[i] >= 0
                   /\ ~(energy_shortfall_hopp[i] > 0 /\ combined_hybrid_curtailment_hopp[i] > 0)
        /\ combined_hybrid_curtailment_hopp[1] = 0

\* a returned series whose first hour had production above the load, with a
\* later hour curtailed and another one short
C30_Witness ==
    /\ pc = "hp_returned"
    /\ combined_hybrid_power_production_hopp[1] > load[1]
    /\ combined_hybrid_curtailment_hopp[1] = 0
    /\ \E i \in DOMAIN combined_hybrid_curtailment_hopp :
           i > 1 /\ combined_hybrid_curtailment_hopp[i] > 0
    /\ \E i \in DOMAIN energy_shortfall_hopp : energy_shortfall_hopp[i] > 0

====
